---- MODULE Spec2Model ----
(***************************************************************************)
(* Model of the antigravity multi-account pool (src/unnamed/part_001):     *)
(* the persisted account document, the selection policy, the rate-limit    *)
(* tracker, the token cache and the provider's refreshToken hook, with the *)
(* turn_start / turn_end handlers and the /ag-* commands.                  *)
(*                                                                         *)
(* Three specifications share the variables:                               *)
(*   Spec        the pool as a state machine (handlers run one at a time), *)
(*   SpecSelect  getNextAccountIndex applied to arbitrary pools,           *)
(*   SpecDelay   the delay extraction applied to arbitrary error texts.    *)
(*                                                                         *)
(* Text is a sequence of one-character strings, times are milliseconds.    *)
(***************************************************************************)
EXTENDS Integers, Sequences, FiniteSets, TLC

VARIABLES
    config,         \* the in-memory AccountsConfig (module-level `config`)
    disk,           \* the content of CONFIG_FILE
    auth,           \* auth.json's "google-antigravity" entry, or NoAuth
    registered,     \* whether the provider override was registered at start-up
    now,            \* Date.now()
    revoked,        \* refresh secrets the token endpoint rejects
    call,           \* the refreshToken invocation in progress
    last,           \* what the most recent handler did and returned
    run,            \* the accounts picked by the current run of consecutive refreshToken calls
    steps,          \* number of handler invocations so far
    msg,            \* the error text under examination (SpecDelay)
    codex,          \* codex-swap's files: auth.json's "openai-codex" entry,
                    \* codexswap.json, the latest backup
    flights         \* the refreshToken invocations that overlap (SpecOverlap)

vars == <<config, disk, auth, registered, now, revoked, call, last, run, steps, msg,
          codex, flights>>

(***************************************************************************)
(* Bounds of the model.                                                    *)
(***************************************************************************)
MaxAccounts == 3
MaxSteps == 4
MaxAtoms == 4

(***************************************************************************)
(* Text helpers: String.prototype.toLowerCase, includes, parseInt and the  *)
(* three regular expressions of the turn_end handler.                      *)
(***************************************************************************)
UNDEF == -1

UpperLetters ==
    <<"A","B","C","D","E","F","G","H","I","J","K","L","M",
      "N","O","P","Q","R","S","T","U","V","W","X","Y","Z">>

LowerLetters ==
    <<"a","b","c","d","e","f","g","h","i","j","k","l","m",
      "n","o","p","q","r","s","t","u","v","w","x","y","z">>

LowerChar(c) ==
    IF \E i \in 1..26 : UpperLetters[i] = c
    THEN LowerLetters[CHOOSE i \in 1..26 : UpperLetters[i] = c]
    ELSE c

ToLowerCase(t) == [i \in 1..Len(t) |-> LowerChar(t[i])]

Includes(t, needle) ==
    \E i \in 1..(Len(t) - Len(needle) + 1) :
        \A k \in 1..Len(needle) : t[i + k - 1] = needle[k]

Digits == <<"0","1","2","3","4","5","6","7","8","9">>

IsDigit(c) == \E d \in 1..10 : Digits[d] = c

DigitValue(c) == (CHOOSE d \in 1..10 : Digits[d] = c) - 1

IsSpace(c) == c \in {" ", "\t", "\n", "\r"}

\* The index just after the longest run of digits that starts at i (greedy \d+).
RECURSIVE DigitsEnd(_, _)
DigitsEnd(t, i) ==
    IF i <= Len(t) /\ IsDigit(t[i]) THEN DigitsEnd(t, i + 1) ELSE i

\* The index just after the longest run of white space that starts at i (greedy \s*).
RECURSIVE SpacesEnd(_, _)
SpacesEnd(t, i) ==
    IF i <= Len(t) /\ IsSpace(t[i]) THEN SpacesEnd(t, i + 1) ELSE i

\* parseInt of the digits t[i..j-1].
RECURSIVE ParseInt(_, _, _)
ParseInt(t, i, j) ==
    IF j <= i THEN 0 ELSE ParseInt(t, i, j - 1) * 10 + DigitValue(t[j - 1])

\* The letter c at index i, ignoring case (the regular expressions' i flag).
LetterAt(t, i, c) == i <= Len(t) /\ LowerChar(t[i]) = c

NoMatch == [found |-> FALSE, g1 |-> 0, g2 |-> 0, g3 |-> 0]

\* /(\d+)h(\d+)m(\d+)s/i anchored at index i.
HourMatchAt(t, i) ==
    LET e1 == DigitsEnd(t, i)
        e2 == DigitsEnd(t, e1 + 1)
        e3 == DigitsEnd(t, e2 + 1)
    IN  IF /\ e1 > i /\ LetterAt(t, e1, "h")
           /\ e2 > e1 + 1 /\ LetterAt(t, e2, "m")
           /\ e3 > e2 + 1 /\ LetterAt(t, e3, "s")
        THEN [found |-> TRUE, g1 |-> ParseInt(t, i, e1),
              g2 |-> ParseInt(t, e1 + 1, e2), g3 |-> ParseInt(t, e2 + 1, e3)]
        ELSE NoMatch

\* /(\d+)m(\d+)s/i anchored at index i.
MinMatchAt(t, i) ==
    LET e1 == DigitsEnd(t, i)
        e2 == DigitsEnd(t, e1 + 1)
    IN  IF /\ e1 > i /\ LetterAt(t, e1, "m")
           /\ e2 > e1 + 1 /\ LetterAt(t, e2, "s")
        THEN [found |-> TRUE, g1 |-> ParseInt(t, i, e1),
              g2 |-> ParseInt(t, e1 + 1, e2), g3 |-> 0]
        ELSE NoMatch

\* /(\d+)\s*s/i anchored at index i.
SecMatchAt(t, i) ==
    LET e1 == DigitsEnd(t, i)
        e2 == SpacesEnd(t, e1)
    IN  IF e1 > i /\ LetterAt(t, e2, "s")
        THEN [found |-> TRUE, g1 |-> ParseInt(t, i, e1), g2 |-> 0, g3 |-> 0]
        ELSE NoMatch

\* String.prototype.match without the g flag: the leftmost match.
HourMatch(t) ==
    IF \E i \in 1..Len(t) : HourMatchAt(t, i).found
    THEN LET i == CHOOSE i \in 1..Len(t) :
                    /\ HourMatchAt(t, i).found
                    /\ \A k \in 1..(i - 1) : ~HourMatchAt(t, k).found
         IN  HourMatchAt(t, i)
    ELSE NoMatch

MinMatch(t) ==
    IF \E i \in 1..Len(t) : MinMatchAt(t, i).found
    THEN LET i == CHOOSE i \in 1..Len(t) :
                    /\ MinMatchAt(t, i).found
                    /\ \A k \in 1..(i - 1) : ~MinMatchAt(t, k).found
         IN  MinMatchAt(t, i)
    ELSE NoMatch

SecMatch(t) ==
    IF \E i \in 1..Len(t) : SecMatchAt(t, i).found
    THEN LET i == CHOOSE i \in 1..Len(t) :
                    /\ SecMatchAt(t, i).found
                    /\ \A k \in 1..(i - 1) : ~SecMatchAt(t, k).found
         IN  SecMatchAt(t, i)
    ELSE NoMatch

DefaultResetMs == 60000

\* The extraction with the patterns tried least specific first.
ExtractResetMsSecondsFirst(errorMessage) ==
    LET hourMatch == HourMatch(errorMessage)
        minMatch == MinMatch(errorMessage)
        secMatch == SecMatch(errorMessage)
    IN  IF secMatch.found
        THEN secMatch.g1 * 1000
        ELSE IF minMatch.found
        THEN (minMatch.g1 * 60 + minMatch.g2) * 1000
        ELSE IF hourMatch.found
        THEN (hourMatch.g1 * 3600 + hourMatch.g2 * 60 + hourMatch.g3) * 1000
        ELSE DefaultResetMs

\* turn_end: "Extract retry delay if present".
ExtractResetMs(errorMessage) ==
    LET hourMatch == HourMatch(errorMessage)
        minMatch == MinMatch(errorMessage)
        secMatch == SecMatch(errorMessage)
    IN  IF hourMatch.found
        THEN (hourMatch.g1 * 3600 + hourMatch.g2 * 60 + hourMatch.g3) * 1000
        ELSE IF minMatch.found
        THEN (minMatch.g1 * 60 + minMatch.g2) * 1000
        ELSE IF secMatch.found
        THEN secMatch.g1 * 1000
        ELSE DefaultResetMs

\* The check made on the text as given, not lower-cased.
IsRateLimitErrorCaseSensitive(errorMessage) ==
    \/ Includes(errorMessage, <<"4","2","9">>)
    \/ Includes(errorMessage, <<"r","a","t","e">>)
    \/ Includes(errorMessage, <<"q","u","o","t","a">>)
    \/ Includes(errorMessage, <<"r","e","s","o","u","r","c","e"," ",
                                "e","x","h","a","u","s","t","e","d">>)
    \/ Includes(errorMessage, <<"r","e","s","o","u","r","c","e",
                                "e","x","h","a","u","s","t","e","d">>)

\* turn_end: "Check for rate limit errors" on the lower-cased text.
IsRateLimitError(errorMessage) ==
    LET errorMsg == ToLowerCase(errorMessage)
    IN  \/ Includes(errorMsg, <<"4","2","9">>)
        \/ Includes(errorMsg, <<"r","a","t","e">>)
        \/ Includes(errorMsg, <<"q","u","o","t","a">>)
        \/ Includes(errorMsg, <<"r","e","s","o","u","r","c","e"," ",
                                "e","x","h","a","u","s","t","e","d">>)
        \/ Includes(errorMsg, <<"r","e","s","o","u","r","c","e",
                                "e","x","h","a","u","s","t","e","d">>)

(***************************************************************************)
(* The account pool: AntigravityAccount, AccountsConfig, loadConfig and    *)
(* saveConfig.  Indices are 0-based as in the source; an optional number   *)
(* that is absent is UNDEF, an absent string is "".                        *)
(***************************************************************************)
RoundRobin == "round-robin"
UseUntilExhausted == "use-until-exhausted"
RotationModes == {RoundRobin, UseUntilExhausted}

NoError == [kind |-> "none", until |-> UNDEF, email |-> <<>>]

\* `Rate limited until ${new Date(resetTime).toISOString()}`
RateLimitedUntil(t) == [kind |-> "rate-limited", until |-> t, email |-> <<>>]

\* String(new Error(`Token refresh failed for ${account.email}: ${error}`))
TokenRefreshFailed(email) == [kind |-> "refresh-failed", until |-> UNDEF, email |-> email]

\* JavaScript truthiness of an optional number.
Truthy(n) == n # UNDEF /\ n # 0

\* config.accounts[i]
AccountAt(cfg, i) == cfg.accounts[i + 1]

HasAccountAt(cfg, i) == i >= 0 /\ i < Len(cfg.accounts)

EmptyConfig ==
    [version |-> 1, accounts |-> <<>>, activeIndex |-> 0, rotationMode |-> RoundRobin]

NoFile == [exists |-> FALSE, data |-> EmptyConfig]

\* JSON.stringify(cfg) written to CONFIG_FILE: absent optional fields stay absent.
saveConfig(cfg) == [exists |-> TRUE, data |-> cfg]

\* CONFIG_FILE exists but cannot be read, or its text is not JSON, or it is
\* the JSON null: reading, JSON.parse or data.version throws inside the try.
BrokenFile == [exists |-> TRUE, broken |-> TRUE]

\* data.field ?? fallback: the field of the parsed object, the fallback when
\* the object has no such field.
OrDefault(data, field, fallback) ==
    IF field \in DOMAIN data THEN data[field] ELSE fallback

\* A load that takes the rotation mode of no file.
loadConfigDefaultMode(file) ==
    IF ~file.exists \/ "data" \notin DOMAIN file THEN EmptyConfig
    ELSE [version |-> OrDefault(file.data, "version", 1),
          accounts |-> OrDefault(file.data, "accounts", <<>>),
          activeIndex |-> OrDefault(file.data, "activeIndex", 0),
          rotationMode |-> RoundRobin]

\* loadConfig: JSON.parse of CONFIG_FILE with the ?? defaults; the default
\* document when the file does not exist or the try block throws.
loadConfig(file) ==
    IF ~file.exists \/ "data" \notin DOMAIN file THEN EmptyConfig
    ELSE [version |-> OrDefault(file.data, "version", 1),
          accounts |-> OrDefault(file.data, "accounts", <<>>),
          activeIndex |-> OrDefault(file.data, "activeIndex", 0),
          rotationMode |-> OrDefault(file.data, "rotationMode", RoundRobin)]

(***************************************************************************)
(* Round-robin logic: getAvailableAccounts and getNextAccountIndex.        *)
(***************************************************************************)
\* The filter with >= for >: an account is still held back at its reset
\* instant.
IsAvailableAfterReset(a, t) ==
    ~(Truthy(a.rateLimitResetTime) /\ a.rateLimitResetTime >= t)

\* The filter predicate of getAvailableAccounts.
IsAvailable(a, t) == ~(Truthy(a.rateLimitResetTime) /\ a.rateLimitResetTime > t)

getAvailableAccounts(cfg, t) == SelectSeq(cfg.accounts, LAMBDA a : IsAvailable(a, t))

\* The test used inside getNextAccountIndex's scans.
NotRateLimited(a, t) == ~Truthy(a.rateLimitResetTime) \/ a.rateLimitResetTime <= t

\* The soonest-reset loop with <= for <: a later account of equal reset
\* instant replaces the earlier one.
RECURSIVE SoonestLoopLast(_, _, _, _, _)
SoonestLoopLast(cfg, i, soonestIdx, soonestTime, isInfinity) ==
    IF i >= Len(cfg.accounts) THEN soonestIdx
    ELSE LET rt == AccountAt(cfg, i).rateLimitResetTime
             resetTime == IF rt = UNDEF THEN 0 ELSE rt
         IN  IF isInfinity \/ resetTime <= soonestTime
             THEN SoonestLoopLast(cfg, i + 1, i, resetTime, FALSE)
             ELSE SoonestLoopLast(cfg, i + 1, soonestIdx, soonestTime, isInfinity)

\* "All accounts are rate-limited, find the one that resets soonest": the loop
\* from index i on, with soonestTime = Infinity while none is held.
RECURSIVE SoonestLoop(_, _, _, _, _)
SoonestLoop(cfg, i, soonestIdx, soonestTime, isInfinity) ==
    IF i >= Len(cfg.accounts) THEN soonestIdx
    ELSE LET rt == AccountAt(cfg, i).rateLimitResetTime
             resetTime == IF rt = UNDEF THEN 0 ELSE rt
         IN  IF isInfinity \/ resetTime < soonestTime
             THEN SoonestLoop(cfg, i + 1, i, resetTime, FALSE)
             ELSE SoonestLoop(cfg, i + 1, soonestIdx, soonestTime, isInfinity)

\* A scan that goes round the pool backwards.
RECURSIVE ScanAfterCurrentBackward(_, _, _, _)
ScanAfterCurrentBackward(cfg, t, nextIdx, attempts) ==
    IF attempts >= Len(cfg.accounts) THEN -1
    ELSE IF NotRateLimited(AccountAt(cfg, nextIdx), t) THEN nextIdx
    ELSE ScanAfterCurrentBackward(cfg, t,
                                  (nextIdx - 1 + Len(cfg.accounts)) % Len(cfg.accounts),
                                  attempts + 1)

\* A scan that returns the next index without looking at its reset instant.
ScanAfterCurrentBlind(cfg, t, nextIdx, attempts) == nextIdx

\* "Find next available account after current": the for loop; -1 when it ends
\* without returning.
RECURSIVE ScanAfterCurrent(_, _, _, _)
ScanAfterCurrent(cfg, t, nextIdx, attempts) ==
    IF attempts >= Len(cfg.accounts) THEN -1
    ELSE IF NotRateLimited(AccountAt(cfg, nextIdx), t) THEN nextIdx
    ELSE ScanAfterCurrent(cfg, t, (nextIdx + 1) % Len(cfg.accounts), attempts + 1)

\* A scan from index i that keeps the last available account it meets.
RECURSIVE ScanFromStartKeepLast(_, _, _)
ScanFromStartKeepLast(cfg, t, i) ==
    IF i >= Len(cfg.accounts) THEN -1
    ELSE IF ScanFromStartKeepLast(cfg, t, i + 1) >= 0
    THEN ScanFromStartKeepLast(cfg, t, i + 1)
    ELSE IF NotRateLimited(AccountAt(cfg, i), t) THEN i
    ELSE -1

\* "Current is rate-limited, find any available": the for loop; -1 when it ends
\* without returning.
RECURSIVE ScanFromStart(_, _, _)
ScanFromStart(cfg, t, i) ==
    IF i >= Len(cfg.accounts) THEN -1
    ELSE IF NotRateLimited(AccountAt(cfg, i), t) THEN i
    ELSE ScanFromStart(cfg, t, i + 1)

\* A selection that always takes the first available account from index 0.
getNextAccountIndexFromStart(cfg, t, forceSwitch) ==
    IF Len(cfg.accounts) = 0 THEN -1
    ELSE IF ScanFromStart(cfg, t, 0) >= 0 THEN ScanFromStart(cfg, t, 0)
    ELSE cfg.activeIndex

getNextAccountIndex(cfg, t, forceSwitch) ==
    IF Len(cfg.accounts) = 0 THEN -1
    ELSE IF Len(getAvailableAccounts(cfg, t)) = 0
    THEN SoonestLoop(cfg, 0, 0, 0, TRUE)
    ELSE LET scanned ==
                 IF cfg.rotationMode = RoundRobin \/ forceSwitch
                 THEN ScanAfterCurrent(cfg, t,
                          (cfg.activeIndex + 1) % Len(cfg.accounts), 0)
                 ELSE -1
         IN  IF scanned >= 0 THEN scanned
             ELSE IF /\ HasAccountAt(cfg, cfg.activeIndex)
                     /\ NotRateLimited(AccountAt(cfg, cfg.activeIndex), t)
             THEN cfg.activeIndex
             ELSE IF ScanFromStart(cfg, t, 0) >= 0
             THEN ScanFromStart(cfg, t, 0)
             ELSE cfg.activeIndex

(***************************************************************************)
(* Rate-limit tracker and forced switch.  A handler's effect on the pair   *)
(* (module-level config, CONFIG_FILE) is threaded through as a record.     *)
(***************************************************************************)
Mem(cfg, file) == [config |-> cfg, disk |-> file]

Save(st) == [st EXCEPT !.disk = saveConfig(st.config)]

markAccountRateLimited(st, accountIndex, resetMs, t) ==
    IF accountIndex < 0 \/ accountIndex >= Len(st.config.accounts) THEN st
    ELSE Save([st EXCEPT
            !.config.accounts[accountIndex + 1].rateLimitResetTime = t + resetMs,
            !.config.accounts[accountIndex + 1].lastError = RateLimitedUntil(t + resetMs)])

\* A switch that leaves the active index where it is.
switchToNextAccountStay(st, t) == st

\* The returned index is the resulting state's config.activeIndex.
switchToNextAccount(st, t) ==
    LET nextIdx == getNextAccountIndex(st.config, t, TRUE)
    IN  IF nextIdx >= 0 /\ nextIdx # st.config.activeIndex
        THEN Save([st EXCEPT !.config.activeIndex = nextIdx])
        ELSE st

(***************************************************************************)
(* The environment: the people who can log in, the clock, the token        *)
(* endpoint.                                                               *)
(***************************************************************************)
\* The clock's reading at start-up.
T0 == 1000 * 1000

Emails ==
    << <<"w","o","r","k","@","x">>,
       <<"w","o","r","k","2","@","x">>,
       <<"h","o","m","e","@","x">>,
       <<"l","a","b","@","x">>,
       <<"o","p","s","@","x">> >>

RefreshSecrets == <<"r1", "r2", "r3", "r4", "r5">>
AccessTokens == <<"t1", "t2", "t3", "t4", "t5">>
ProjectIds == <<"p1", "p2", "p3", "p4", "p5">>

People == 1..MaxAccounts

\* The access token the endpoint issues for a refresh secret.
IssuedToken(refresh) ==
    AccessTokens[CHOOSE k \in 1..Len(RefreshSecrets) : RefreshSecrets[k] = refresh]

\* expires_in of the endpoint's response, in seconds.
ExpiresIn == 3600

\* An account as migrateFromOpencode writes it.
MigratedAccount(k) ==
    [email |-> Emails[k], refreshToken |-> RefreshSecrets[k],
     projectId |-> ProjectIds[k], accessToken |-> "",
     accessTokenExpires |-> UNDEF, addedAt |-> T0, lastUsed |-> UNDEF,
     lastError |-> NoError, rateLimitResetTime |-> UNDEF, requestCount |-> UNDEF]

NoAuth == [present |-> FALSE, refresh |-> "", access |-> "", expires |-> UNDEF,
           projectId |-> "", email |-> <<>>]

\* What pi's /login google-antigravity stores for person k.
LoginEntry(k, withEmail) ==
    [present |-> TRUE, refresh |-> RefreshSecrets[k], access |-> AccessTokens[k],
     expires |-> now + ExpiresIn * 1000, projectId |-> ProjectIds[k],
     email |-> IF withEmail THEN Emails[k] ELSE <<>>]

Unknown == <<"u","n","k","n","o","w","n">>

(***************************************************************************)
(* Records of what a handler did.                                          *)
(***************************************************************************)
NoCred == [refresh |-> "", access |-> "", expires |-> UNDEF, projectId |-> "",
           email |-> <<>>, activeIndex |-> -1, totalAccounts |-> 0]

NoPrev == [op |-> "none", result |-> "none", idx |-> -1, resetMs |-> 0]

NoLast == [op |-> "none", result |-> "none", cred |-> NoCred, error |-> NoError,
           attempts |-> 0, idx |-> -1, resetMs |-> 0, force |-> FALSE,
           prev |-> NoPrev, held |-> ""]

\* The handlers whose outcome is kept for inspection.
Watched ==
    {"refreshToken", "turn_start", "turn_end", "ag-import", "ag-remove", "ag-mode", "ag-next",
     "ag-clear", "codexwho", "codexswap next", "codexswap status", "codexswap add",
     "codexswap use", "codexswap rm", "codexswap rename", "codexswap help"}

\* The record of handler op with its result and the index it acted on.
Did(op, result, idx) ==
    IF op \in Watched
    THEN [NoLast EXCEPT !.op = op, !.result = result, !.idx = idx]
    ELSE [NoLast EXCEPT !.op = "other"]

\* The record of a turn event: the host still holds the credential that
\* refreshToken returned last, whose refresh secret is last.held.
DidTurn(op, result, idx) == [Did(op, result, idx) EXCEPT !.held = last.held]

\* The handler that ran just before the one now ending.
Before == [op |-> last.op, result |-> last.result, idx |-> last.idx,
           resetMs |-> last.resetMs]

Idle == [pc |-> "idle", idx |-> -1]

\* No file of codex-swap exists.
NoCodex ==
    [auth |-> [type |-> "none"], file |-> [version |-> 0], backup |-> [type |-> "none"],
     ids |-> 0]

NewRun(cfg) == [start |-> cfg.activeIndex, picks |-> <<>>, calls |-> 0]

\* Errors thrown by refreshToken before any token retrieval.
NoAccountsConfigured == [kind |-> "no-accounts", until |-> UNDEF, email |-> <<>>]
NoActiveAccount == [kind |-> "no-active-account", until |-> UNDEF, email |-> <<>>]

(***************************************************************************)
(* Token cache: getValidAccessToken and refreshAccessToken.                *)
(***************************************************************************)
\* "Check if we have a valid cached token"
\* A test that takes any cached token for valid.
CachedTokenValidAnyAge(a, t) == a.accessToken # ""

CachedTokenValid(a, t) ==
    a.accessToken # "" /\ Truthy(a.accessTokenExpires) /\ t < a.accessTokenExpires

\* response.ok of the token endpoint for this account's refresh secret.
RefreshAccepted(a) == a.refreshToken \notin revoked

\* getValidAccessToken after a successful refreshAccessToken: store, save.
StoreToken(st, i, t) ==
    Save([st EXCEPT
        !.config.accounts[i + 1].accessToken =
            IssuedToken(st.config.accounts[i + 1].refreshToken),
        !.config.accounts[i + 1].accessTokenExpires =
            t + (ExpiresIn * 1000) - (5 * 60 * 1000)])

\* The object refreshToken returns for the account object a.
CredentialOf(a, cfg, accessToken, t, reportedIndex) ==
    [refresh |-> a.refreshToken, access |-> accessToken,
     expires |-> IF a.accessTokenExpires = UNDEF THEN t + 3600000
                 ELSE a.accessTokenExpires,
     projectId |-> a.projectId, email |-> a.email,
     activeIndex |-> reportedIndex, totalAccounts |-> Len(cfg.accounts)]

\* The object refreshToken returns for account i.
Credential(cfg, i, accessToken, t, reportedIndex) ==
    CredentialOf(AccountAt(cfg, i), cfg, accessToken, t, reportedIndex)

\* A try block that counts every use on the first account of the pool.
RecordUseFirst(st, i, t) ==
    LET rc == st.config.accounts[1].requestCount
    IN  Save([st EXCEPT
            !.config.accounts[i + 1].lastUsed = t,
            !.config.accounts[1].requestCount = (IF rc = UNDEF THEN 0 ELSE rc) + 1])

\* refreshToken's try block after getValidAccessToken returned: lastUsed,
\* requestCount, save.
RecordUse(st, i, t) ==
    LET rc == st.config.accounts[i + 1].requestCount
    IN  Save([st EXCEPT
            !.config.accounts[i + 1].lastUsed = t,
            !.config.accounts[i + 1].requestCount = (IF rc = UNDEF THEN 0 ELSE rc) + 1])

\* What a finished refreshToken call leaves behind.
Outcome(st, result, cred, error, attempts, counted, picks, idx) ==
    [st |-> st, result |-> result, cred |-> cred, error |-> error,
     attempts |-> attempts, counted |-> counted, picks |-> picks, idx |-> idx]

\* The try block's success path for account i holding a valid token.
Succeed(st, i, t, attempts) ==
    LET st1 == RecordUse(st, i, t)
    IN  Outcome(st1, "credential",
                Credential(st1.config, i, AccountAt(st1.config, i).accessToken, t,
                           st1.config.activeIndex),
                NoError, attempts, TRUE, <<>>, i)

\* The fallback test against the index that failed: the retry is made, and
\* an error of the retry is the one the call ends with.
FallbackTakenOnAdvance(fallbackIdx, cfg, prevIdx) == fallbackIdx # prevIdx

\* `if (fallbackIdx !== config.activeIndex)` in the catch block, evaluated
\* after switchToNextAccount has returned; prevIdx is the index that failed.
FallbackTaken(fallbackIdx, cfg, prevIdx) == fallbackIdx # cfg.activeIndex

\* The catch block after the error e was recorded and saved: force a switch,
\* retry on the fallback when the test above lets it, otherwise rethrow.
Rethrown(st1, e, i, t) ==
    LET st2 == switchToNextAccount(st1, t)
        fallbackIdx == st2.config.activeIndex
    IN  IF /\ FallbackTaken(fallbackIdx, st2.config, i)
           /\ HasAccountAt(st2.config, fallbackIdx)
        THEN LET fb == AccountAt(st2.config, fallbackIdx)
             IN  IF CachedTokenValid(fb, t)
                 THEN Outcome(st2, "credential",
                              Credential(st2.config, fallbackIdx, fb.accessToken, t,
                                         fallbackIdx),
                              NoError, 2, FALSE, <<fallbackIdx>>, i)
                 ELSE IF RefreshAccepted(fb)
                 THEN LET st3 == StoreToken(st2, fallbackIdx, t)
                      IN  Outcome(st3, "credential",
                                  Credential(st3.config, fallbackIdx,
                                             AccountAt(st3.config, fallbackIdx).accessToken,
                                             t, fallbackIdx),
                                  NoError, 2, FALSE, <<fallbackIdx>>, i)
                 ELSE Outcome(st2, "error", NoCred, TokenRefreshFailed(fb.email),
                              2, FALSE, <<fallbackIdx>>, i)
        ELSE Outcome(st2, "error", NoCred, e, 1, FALSE, <<fallbackIdx>>, i)

\* A catch block that records nothing on the account.
FailUnrecorded(st, i, t) ==
    Rethrown(Save(st), TokenRefreshFailed(AccountAt(st.config, i).email), i, t)

\* The catch block for account i of the pool in memory.
Fail(st, i, t) ==
    Rethrown(Save([st EXCEPT !.config.accounts[i + 1].lastError =
                        TokenRefreshFailed(AccountAt(st.config, i).email)]),
             TokenRefreshFailed(AccountAt(st.config, i).email), i, t)

\* The state after a refreshToken call has ended with outcome o.
Finish(o) ==
    /\ config' = o.st.config
    /\ disk' = o.st.disk
    /\ call' = Idle
    /\ last' = [Did("refreshToken", o.result, o.idx) EXCEPT
                    !.cred = o.cred, !.error = o.error, !.attempts = o.attempts,
                    !.prev = Before,
                    !.held = IF o.result = "credential" THEN o.cred.refresh
                             ELSE last.held]
    /\ run' = [run EXCEPT !.picks = run.picks \o o.picks, !.calls = run.calls + 1]

(***************************************************************************)
(* The provider's refreshToken hook.  It awaits the token endpoint when    *)
(* the picked account has no valid cached token: RefreshTokenBegin runs up *)
(* to that await, RefreshTokenResume from the endpoint's answer on.        *)
(***************************************************************************)
RefreshTokenBegin ==
    /\ steps < MaxSteps
    /\ UNCHANGED flights
    /\ registered
    /\ call.pc = "idle"
    /\ steps' = steps + 1
    /\ UNCHANGED <<auth, registered, now, revoked, msg, codex>>
    /\ LET nextIdx == getNextAccountIndex(config, now, FALSE)
           st0 == Mem(config, disk)
           st1 == IF /\ nextIdx >= 0
                     /\ config.rotationMode = RoundRobin
                     /\ nextIdx # config.activeIndex
                  THEN Save([st0 EXCEPT !.config.activeIndex = nextIdx])
                  ELSE st0
           idx == st1.config.activeIndex
       IN  IF nextIdx < 0
           THEN Finish(Outcome(st0, "error", NoCred, NoAccountsConfigured, 0, FALSE, <<>>, -1))
           ELSE IF ~HasAccountAt(st1.config, idx)
           THEN Finish(Outcome(st1, "error", NoCred, NoActiveAccount, 0, FALSE, <<>>, -1))
           ELSE IF CachedTokenValid(AccountAt(st1.config, idx), now)
           THEN Finish([Succeed(st1, idx, now, 1) EXCEPT !.picks = <<idx>>])
           ELSE /\ config' = st1.config
                /\ disk' = st1.disk
                /\ call' = [pc |-> "fetch", idx |-> idx]
                /\ run' = [run EXCEPT !.picks = Append(run.picks, idx)]
                /\ UNCHANGED last

RefreshTokenResume ==
    /\ call.pc = "fetch"
    /\ UNCHANGED flights
    /\ steps' = steps
    /\ UNCHANGED <<auth, registered, now, revoked, msg, codex>>
    /\ LET st0 == Mem(config, disk)
       IN  IF RefreshAccepted(AccountAt(config, call.idx))
           THEN Finish(Succeed(StoreToken(st0, call.idx, now), call.idx, now, 1))
           ELSE Finish(Fail(st0, call.idx, now))

(***************************************************************************)
(* turn_start and turn_end.  isAntigravity is whether ctx.model.provider   *)
(* is "google-antigravity"; the error texts a turn can end with are those  *)
(* of ErrorTexts.                                                          *)
(***************************************************************************)
\* The handlers that begin with `config = loadConfig()`.
Reloading == {"ag-accounts", "ag-status", "ag-remove", "ag-next", "ag-clear", "restart"}

\* `config = loadConfig()` binds the module's variable to a new object: an
\* invocation that still holds `account`, an element of the object replaced,
\* from then on reads and writes an object the pool no longer contains.
Detached(calls, cfg) ==
    [c \in 1..Len(calls) |->
        IF calls[c].pc = "fetch" /\ calls[c].live
        THEN [calls[c] EXCEPT !.live = FALSE, !.account = AccountAt(cfg, calls[c].idx)]
        ELSE calls[c]]

\* Every handler but refreshToken runs while no refreshToken call is waiting
\* for the token endpoint, and ends the run of consecutive refreshToken calls.
Handler(op) ==
    /\ steps < MaxSteps
    /\ call.pc = "idle"
    /\ steps' = steps + 1
    /\ call' = call
    /\ flights' = IF op \in Reloading THEN Detached(flights, config) ELSE flights

TurnStart(isAntigravity) ==
    /\ Handler("turn_start")
    /\ UNCHANGED <<auth, registered, now, revoked, msg, codex>>
    /\ LET st0 == Mem(config, disk)
           nextIdx == getNextAccountIndex(config, now, TRUE)
           st1 == IF /\ isAntigravity
                     /\ Len(config.accounts) # 0
                     /\ config.rotationMode = RoundRobin
                     /\ nextIdx >= 0
                     /\ nextIdx # config.activeIndex
                  THEN Save([st0 EXCEPT !.config.activeIndex = nextIdx])
                  ELSE st0
       IN  /\ config' = st1.config
           /\ disk' = st1.disk
           /\ last' = DidTurn("turn_start",
                          IF st1.config.activeIndex # config.activeIndex
                          THEN "rotated" ELSE "stayed",
                          st1.config.activeIndex)
           /\ run' = NewRun(st1.config)

\* "429 RESOURCE_EXHAUSTED, retry in 2m30s"
TextScenarioB ==
    <<"4","2","9"," ","R","E","S","O","U","R","C","E","_","E","X","H","A","U",
      "S","T","E","D",","," ","r","e","t","r","y"," ","i","n"," ","2","m","3",
      "0","s">>

\* "Rate limit exceeded"
TextRateLimit ==
    <<"R","a","t","e"," ","l","i","m","i","t"," ","e","x","c","e","e","d","e",
      "d">>

\* "quota exceeded, retry in 10s"
TextQuota10s ==
    <<"q","u","o","t","a"," ","e","x","c","e","e","d","e","d",","," ","r","e",
      "t","r","y"," ","i","n"," ","1","0","s">>

\* "ResourceExhausted"
TextResourceExhausted ==
    <<"R","e","s","o","u","r","c","e","E","x","h","a","u","s","t","e","d">>

\* "429 Too Many Requests, retry in 0s"
TextRetry0s ==
    <<"4","2","9"," ","T","o","o"," ","M","a","n","y"," ","R","e","q","u","e",
      "s","t","s",","," ","r","e","t","r","y"," ","i","n"," ","0","s">>

\* "internal error"
TextInternal ==
    <<"i","n","t","e","r","n","a","l"," ","e","r","r","o","r">>

ErrorTexts ==
    {TextScenarioB, TextRateLimit, TextResourceExhausted, TextRetry0s,
     TextInternal, <<>>}

\* How a turn can end: with an error text on an antigravity model, with an
\* error on another provider's model, or without an error.
TurnEndEvents ==
    {[isAntigravity |-> TRUE, stopReason |-> "error", errorMessage |-> m] :
        m \in ErrorTexts}
    \cup {[isAntigravity |-> FALSE, stopReason |-> "error",
           errorMessage |-> TextRateLimit],
          [isAntigravity |-> TRUE, stopReason |-> "stop",
           errorMessage |-> TextRateLimit],
          [isAntigravity |-> TRUE, stopReason |-> "stop", errorMessage |-> <<>>]}

\* What turn_end reads off each of these texts: whether it is a rate-limit
\* error, and the retry delay.
Analysed ==
    [m \in ErrorTexts |->
        [limited |-> IsRateLimitError(m), resetMs |-> ExtractResetMs(m)]]

StopReasons == {"error", "stop"}

TurnEnd(isAntigravity, stopReason, errorMessage) ==
    /\ Handler("turn_end")
    /\ UNCHANGED <<auth, registered, now, revoked, msg, codex>>
    /\ LET st0 == Mem(config, disk)
           isError == stopReason = "error" /\ errorMessage # <<>>
           entered == isAntigravity /\ Len(config.accounts) # 0 /\ isError
           limited == entered /\ Analysed[errorMessage].limited
           resetMs == Analysed[errorMessage].resetMs
           currentIdx == config.activeIndex
           st1 == IF limited
                  THEN switchToNextAccount(
                           markAccountRateLimited(st0, currentIdx, resetMs, now), now)
                  ELSE st0
       IN  /\ config' = st1.config
           /\ disk' = st1.disk
           /\ last' = IF limited
                      THEN [DidTurn("turn_end", "rate-limited", currentIdx) EXCEPT
                               !.resetMs = resetMs]
                      ELSE DidTurn("turn_end", "ignored", -1)
           /\ run' = NewRun(st1.config)

(***************************************************************************)
(* The /ag-* commands.  A command's args is the text typed after its name. *)
(***************************************************************************)
\* String.prototype.trim
RECURSIVE TrimStart(_)
TrimStart(t) == IF t # <<>> /\ IsSpace(Head(t)) THEN TrimStart(Tail(t)) ELSE t

RECURSIVE TrimEnd(_)
TrimEnd(t) ==
    IF t # <<>> /\ IsSpace(t[Len(t)]) THEN TrimEnd(SubSeq(t, 1, Len(t) - 1)) ELSE t

Trim(t) == TrimEnd(TrimStart(t))

\* parseInt(arg, 10): white space, an optional sign, then the leading digits;
\* nan when there is none.
ParseIntPrefix(arg) ==
    LET t == TrimStart(arg)
        signed == t # <<>> /\ Head(t) \in {"-", "+"}
        from == IF signed THEN 2 ELSE 1
        to == DigitsEnd(t, from)
    IN  IF to > from
        THEN [nan |-> FALSE,
              value |-> IF signed /\ Head(t) = "-" THEN 0 - ParseInt(t, from, to)
                        ELSE ParseInt(t, from, to)]
        ELSE [nan |-> TRUE, value |-> 0]

\* config.accounts.findIndex(a => a.email.toLowerCase().includes(arg.toLowerCase()))
FindIndexByEmail(cfg, arg) ==
    LET hits == {i \in 0..(Len(cfg.accounts) - 1) :
                    Includes(ToLowerCase(AccountAt(cfg, i).email), ToLowerCase(arg))}
    IN  IF hits = {} THEN -1 ELSE CHOOSE i \in hits : \A j \in hits : i <= j

\* A removal that moves the last element into the gap.
SpliceSwapLast(seq, index) ==
    [k \in 1..(Len(seq) - 1) |-> IF k = index + 1 THEN seq[Len(seq)] ELSE seq[k]]

\* Array.prototype.splice(index, 1)
Splice(seq, index) ==
    [k \in 1..(Len(seq) - 1) |-> IF k <= index THEN seq[k] ELSE seq[k + 1]]

Max(a, b) == IF a >= b THEN a ELSE b

AgAccounts ==
    /\ Handler("ag-accounts")
    /\ UNCHANGED <<disk, auth, registered, now, revoked, msg, codex>>
    /\ config' = loadConfig(disk)
    /\ last' = Did("ag-accounts", "none", -1)
    /\ run' = NewRun(config')

AgStatus ==
    /\ Handler("ag-status")
    /\ UNCHANGED <<disk, auth, registered, now, revoked, msg, codex>>
    /\ config' = loadConfig(disk)
    /\ last' = Did("ag-status", "none", -1)
    /\ run' = NewRun(config')

\* A look-up that finds no account.
AlreadyInPoolNever(cfg, refresh) == FALSE

\* "Check if already exists (by refresh token)"
AlreadyInPool(cfg, refresh) ==
    \E i \in 1..Len(cfg.accounts) : cfg.accounts[i].refreshToken = refresh

\* userinfoEmail is what the userinfo endpoint answers when it is asked:
\* an email, or <<>> when the request fails or carries no email.
AgImport(userinfoEmail) ==
    /\ Handler("ag-import")
    /\ UNCHANGED <<auth, registered, now, revoked, msg, codex>>
    /\ LET exists == AlreadyInPool(config, auth.refresh)
           known == auth.email # <<>>
           asked == ~known /\ auth.access # ""
           email == IF known THEN auth.email
                    ELSE IF asked /\ userinfoEmail # <<>> THEN userinfoEmail
                    ELSE Unknown
           newAccount ==
               [email |-> email, refreshToken |-> auth.refresh,
                projectId |-> auth.projectId, accessToken |-> auth.access,
                accessTokenExpires |-> auth.expires, addedAt |-> now,
                lastUsed |-> UNDEF, lastError |-> NoError,
                rateLimitResetTime |-> UNDEF, requestCount |-> 0]
           st0 == Mem(config, disk)
       IN  IF ~auth.present \/ auth.refresh = ""
           THEN /\ UNCHANGED <<config, disk>>
                /\ last' = Did("ag-import", "no-credentials", -1)
           ELSE IF exists
           THEN /\ UNCHANGED <<config, disk>>
                /\ last' = Did("ag-import", "exists", -1)
           ELSE LET st1 == Save([st0 EXCEPT
                               !.config.accounts = Append(config.accounts, newAccount)])
                IN  /\ config' = st1.config
                    /\ disk' = st1.disk
                    /\ last' = Did("ag-import", "added", Len(config.accounts))
    /\ run' = NewRun(config')

\* The splice's result kept as it is.
ClampActiveNot(cfg) == cfg

\* ag-remove after the splice: an active index past the end moves to the
\* last account, or to 0 when none is left.
ClampActive(cfg) ==
    IF cfg.activeIndex >= Len(cfg.accounts)
    THEN [cfg EXCEPT !.activeIndex = Max(0, Len(cfg.accounts) - 1)]
    ELSE cfg

AgRemove(args) ==
    /\ Handler(IF args = <<>> THEN "ag-remove usage" ELSE "ag-remove")
    /\ UNCHANGED <<auth, registered, now, revoked, msg, codex>>
    /\ IF args = <<>>
       THEN /\ UNCHANGED <<config, disk>>
            /\ last' = Did("ag-remove", "usage", -1)
       ELSE LET loaded == loadConfig(disk)
                arg == Trim(args)
                num == ParseIntPrefix(arg)
                index == IF ~num.nan /\ num.value >= 1
                            /\ num.value <= Len(loaded.accounts)
                         THEN num.value - 1
                         ELSE FindIndexByEmail(loaded, arg)
            IN  IF index = -1
                THEN /\ config' = loaded
                     /\ disk' = disk
                     /\ last' = Did("ag-remove", "not-found", -1)
                ELSE LET spliced == [loaded EXCEPT
                                        !.accounts = Splice(loaded.accounts, index)]
                         fixed == ClampActive(spliced)
                     IN  /\ config' = fixed
                         /\ disk' = saveConfig(fixed)
                         /\ last' = Did("ag-remove", "removed", index)
    /\ run' = NewRun(config')

AgMode(args) ==
    /\ Handler("ag-mode")
    /\ UNCHANGED <<auth, registered, now, revoked, msg, codex>>
    /\ LET mode == ToLowerCase(Trim(args))
           toRoundRobin == mode \in {<<"r","o","u","n","d","-","r","o","b","i","n">>, <<"r","r">>, <<"r">>}
           toExhausted == mode \in {<<"u","s","e","-","u","n","t","i","l","-","e","x","h","a","u","s","t","e","d">>, <<"e","x","h","a","u","s","t">>, <<"u","e">>, <<"e">>}
           st0 == Mem(config, disk)
           st1 == IF toRoundRobin
                  THEN Save([st0 EXCEPT !.config.rotationMode = RoundRobin])
                  ELSE IF toExhausted
                  THEN Save([st0 EXCEPT !.config.rotationMode = UseUntilExhausted])
                  ELSE st0
       IN  /\ config' = st1.config
           /\ disk' = st1.disk
           /\ last' = Did("ag-mode",
                          IF toRoundRobin \/ toExhausted THEN "set" ELSE "usage", -1)
    /\ run' = NewRun(config')

AgNext ==
    /\ Handler("ag-next")
    /\ UNCHANGED <<auth, registered, now, revoked, msg, codex>>
    /\ LET loaded == loadConfig(disk)
           st1 == IF Len(loaded.accounts) = 0 THEN Mem(loaded, disk)
                  ELSE switchToNextAccount(Mem(loaded, disk), now)
       IN  /\ config' = st1.config
           /\ disk' = st1.disk
           /\ last' = Did("ag-next",
                          IF Len(loaded.accounts) = 0 THEN "no-accounts"
                          ELSE IF st1.config.activeIndex = loaded.activeIndex
                          THEN "stayed" ELSE "switched",
                          st1.config.activeIndex)
    /\ run' = NewRun(config')

AgClear ==
    /\ Handler("ag-clear")
    /\ UNCHANGED <<auth, registered, now, revoked, msg, codex>>
    /\ LET loaded == loadConfig(disk)
           cleared == [loaded EXCEPT !.accounts =
                          [i \in 1..Len(loaded.accounts) |->
                              [loaded.accounts[i] EXCEPT
                                  !.rateLimitResetTime = UNDEF,
                                  !.lastError = NoError]]]
       IN  /\ config' = cleared
           /\ disk' = saveConfig(cleared)
           /\ last' = Did("ag-clear", "none", -1)
    /\ run' = NewRun(config')

(***************************************************************************)
(* Inputs: what can be typed after /ag-remove and /ag-mode.                *)
(***************************************************************************)
RemoveArgs ==
    {<<"1">>, <<"2">>, <<"9">>, <<"w","o">>, <<"H","O","M","E">>, <<"z","z">>,
     <<" ">>, <<>>}

ModeArgs == {<<"r","r">>, <<" ","U","E"," ">>, <<"m">>, <<>>}

(***************************************************************************)
(* codex-swap (src/extensions/codex-swap/index.ts): the saved profiles of  *)
(* OpenAI Codex accounts.  Texts are sequences of characters; an absent    *)
(* string is "" or <<>>, an absent number UNDEF.                           *)
(***************************************************************************)
\* An OAuthCred; email is the email the payload of its access token carries
\* (inferEmail), <<>> when it carries none.
Oauth(refresh, access, email, accountId) ==
    [type |-> "oauth", refresh |-> refresh, access |-> access, email |-> email,
     accountId |-> accountId]

\* No "openai-codex" entry, or one that is not of type "oauth".
NoOauth == [type |-> "none", refresh |-> "", access |-> "", email |-> <<>>,
            accountId |-> <<>>]

inferEmail(oauth) == oauth.email

\* codexswap.json does not exist, or does not parse.
NoStoreFile == [version |-> 0]

StoreV2(activeProfileId, profiles) ==
    [version |-> 2, activeProfileId |-> activeProfileId, profiles |-> profiles]

\* label.trim().replace(/\s+/g, " ")
RECURSIVE CollapseSpaces(_)
CollapseSpaces(t) ==
    IF t = <<>> THEN <<>>
    ELSE IF IsSpace(Head(t))
    THEN <<" ">> \o CollapseSpaces(TrimStart(t))
    ELSE <<Head(t)>> \o CollapseSpaces(Tail(t))

sanitizeLabel(label) == CollapseSpaces(Trim(label))

\* String(i) for 0 <= i <= 99
NumberText(i) ==
    IF i < 10 THEN <<Digits[i + 1]>> ELSE <<Digits[(i \div 10) + 1], Digits[(i % 10) + 1]>>

RECURSIVE FirstFreeSuffix(_, _, _)
FirstFreeSuffix(taken, base, i) ==
    IF ToLowerCase(base \o <<" ">> \o NumberText(i)) \in taken
    THEN FirstFreeSuffix(taken, base, i + 1)
    ELSE base \o <<" ">> \o NumberText(i)

\* label || "profile"
OrProfile(label) == IF label # <<>> THEN label ELSE <<"p","r","o","f","i","l","e">>

\* Lines 126-129: base when it is not taken, else base with the first free
\* number from 2 on.
UniqueAmong(taken, base) ==
    IF ToLowerCase(base) \notin taken THEN base ELSE FirstFreeSuffix(taken, base, 2)

ensureUniqueLabel(profiles, preferred, excludeId) ==
    UniqueAmong({ToLowerCase(profiles[k].label) :
                    k \in {k \in 1..Len(profiles) : profiles[k].id # excludeId}},
                OrProfile(sanitizeLabel(preferred)))

\* email.split("@")[0]
RECURSIVE BeforeAt(_)
BeforeAt(t) ==
    IF t = <<>> \/ Head(t) = "@" THEN <<>> ELSE <<Head(t)>> \o BeforeAt(Tail(t))

\* An excludeId that excludes nothing.
NoId == <<>>

defaultLabelFor(oauth, profiles) ==
    LET fromEmail == Trim(BeforeAt(inferEmail(oauth)))
        acct == IF oauth.accountId # <<>>
                THEN SubSeq(oauth.accountId, 1, IF Len(oauth.accountId) < 8
                                                THEN Len(oauth.accountId) ELSE 8)
                ELSE <<"p","r","o","f","i","l","e">>
    IN  IF fromEmail # <<>> THEN ensureUniqueLabel(profiles, fromEmail, NoId)
        ELSE ensureUniqueLabel(profiles, <<"c","o","d","e","x","-">> \o acct, NoId)

findByRefreshNever(profiles, refresh) == 0

\* findByRefresh: the position (1-based) of the first profile holding the
\* refresh secret, 0 for undefined.
findByRefresh(profiles, refresh) ==
    IF refresh = "" THEN 0
    ELSE IF \E k \in 1..Len(profiles) : profiles[k].oauth.refresh = refresh
    THEN CHOOSE k \in 1..Len(profiles) :
            /\ profiles[k].oauth.refresh = refresh
            /\ \A j \in 1..(k - 1) : profiles[j].oauth.refresh # refresh
    ELSE 0

\* `p_${Date.now().toString(36)}_${Math.random()...}`: the n-th identifier made.
FreshId(n) == <<"p", "_">> \o NumberText(n)

profileFromOauth(oauth, label, n, t) ==
    [id |-> FreshId(n), label |-> label, savedAt |-> t, email |-> inferEmail(oauth),
     accountId |-> oauth.accountId, oauth |-> oauth]

\* The name of a legacy slot, as text.
SlotText(name) ==
    IF name = "current" THEN <<"c","u","r","r","e","n","t">>
    ELSE <<"p","r","e","v","i","o","u","s">>

LegacyId(name) == <<"l","e","g","a","c","y","_">> \o SlotText(name)

\* A LegacySlot; savedAt 0 stands for an absent (or zero) timestamp.
LegacySlot(label, savedAt, email, accountId, oauth) ==
    [label |-> label, savedAt |-> savedAt, email |-> email, accountId |-> accountId,
     oauth |-> oauth]

\* legacy.slots[name] is absent.
NoSlot == LegacySlot(<<>>, 0, <<>>, <<>>, NoOauth)

\* A version-1 document; activeSlot "" stands for an absent one.
LegacyStore(activeSlot, current, previous) ==
    [version |-> 1, activeSlot |-> activeSlot,
     slots |-> [current |-> current, previous |-> previous]]

\* addLegacy(name) of migrateLegacyStore
addLegacy(profiles, legacy, name, t) ==
    LET slot == legacy.slots[name]
    IN  IF slot.oauth.type # "oauth" THEN profiles
        ELSE IF findByRefresh(profiles, slot.oauth.refresh) # 0 THEN profiles
        ELSE Append(profiles,
                    [id |-> LegacyId(name),
                     label |-> IF sanitizeLabel(IF slot.label # <<>> THEN slot.label
                                                ELSE SlotText(name)) # <<>>
                               THEN sanitizeLabel(IF slot.label # <<>> THEN slot.label
                                                  ELSE SlotText(name))
                               ELSE SlotText(name),
                     savedAt |-> IF slot.savedAt # 0 THEN slot.savedAt ELSE t,
                     email |-> slot.email,
                     accountId |-> slot.accountId,
                     oauth |-> slot.oauth])

\* Lines 181-185: the profile of the active slot, by its identifier.
WithActiveSlot(legacy, profiles) ==
    StoreV2(IF /\ legacy.activeSlot # ""
               /\ \E k \in 1..Len(profiles) : profiles[k].id = LegacyId(legacy.activeSlot)
            THEN LegacyId(legacy.activeSlot)
            ELSE NoId,
            profiles)

migrateLegacyStore(legacy, t) ==
    WithActiveSlot(legacy,
                   addLegacy(addLegacy(<<>>, legacy, "current", t), legacy, "previous", t))

loadStoreLegacyOnly(raw, t) ==
    IF raw.version = 1 /\ "slots" \in DOMAIN raw THEN migrateLegacyStore(raw, t)
    ELSE StoreV2(NoId, <<>>)

\* loadStore() on the content of codexswap.json; a document without profiles
\* (or slots) stands for one where the field is absent or of another type.
loadStore(raw, t) ==
    IF raw.version = 2 /\ "profiles" \in DOMAIN raw
    THEN StoreV2(OrDefault(raw, "activeProfileId", NoId), raw.profiles)
    ELSE IF raw.version = 1 /\ "slots" \in DOMAIN raw THEN migrateLegacyStore(raw, t)
    ELSE StoreV2(NoId, <<>>)

\* saveStore(store): the content of codexswap.json afterwards
saveStore(store) == store

\* getOpenAICodexFromAuth() is null
NoLive(entry) == entry.type # "oauth"

\* Lines 213-218: the live credential's profile is pushed when the store has
\* none for its refresh secret.
WithLiveProfile(store, live, ids, t) ==
    IF findByRefresh(store.profiles, live.refresh) # 0
    THEN [store |-> store, ids |-> ids,
          liveId |-> store.profiles[findByRefresh(store.profiles, live.refresh)].id]
    ELSE [store |-> [store EXCEPT
                        !.profiles = Append(@, profileFromOauth(live,
                                                   defaultLabelFor(live, store.profiles),
                                                   ids + 1, t))],
          ids |-> ids + 1,
          liveId |-> FreshId(ids + 1)]

\* Lines 220-222: the live profile becomes active when none is.
WithActive(b) ==
    [store |-> IF b.store.activeProfileId = NoId
               THEN [b.store EXCEPT !.activeProfileId = b.liveId]
               ELSE b.store,
     ids |-> b.ids]

\* inferEmail(backup)?.split("@")[0] || "backup"
BackupLabel(backup) ==
    IF BeforeAt(inferEmail(backup)) # <<>> THEN BeforeAt(inferEmail(backup))
    ELSE <<"b","a","c","k","u","p">>

\* Lines 224-231: a store of fewer than two profiles is seeded from the
\* latest backup.
SeededFromBackup(b, backup, t) ==
    IF /\ Len(b.store.profiles) < 2
       /\ ~NoLive(backup)
       /\ backup.refresh # ""
       /\ findByRefresh(b.store.profiles, backup.refresh) = 0
    THEN [store |-> [b.store EXCEPT
                        !.profiles = Append(@, profileFromOauth(backup,
                                                   ensureUniqueLabel(b.store.profiles,
                                                                     BackupLabel(backup), NoId),
                                                   b.ids + 1, t))],
          ids |-> b.ids + 1]
    ELSE b

\* ensureBootstrapped(store); ids counts the identifiers made so far.
ensureBootstrapped(store, live, backup, ids, t) ==
    IF NoLive(live) THEN [store |-> store, ids |-> ids]
    ELSE SeededFromBackup(WithActive(WithLiveProfile(store, live, ids, t)), backup, t)

\* Number(target) for a trimmed, non-empty target: the value of an optionally
\* signed run of decimal digits, UNDEF (NaN) for a text with any other
\* character.  The selectors of the model hold no ".", no exponent and no
\* radix prefix, the other texts Number() reads as a number.
NumberOfTarget(target) ==
    LET body == IF Head(target) \in {"+", "-"} THEN Tail(target) ELSE target
    IN  IF body = <<>> \/ \E k \in 1..Len(body) : ~IsDigit(body[k]) THEN UNDEF
        ELSE IF Head(target) = "-" THEN 0 - ParseInt(body, 1, Len(body) + 1)
        ELSE ParseInt(body, 1, Len(body) + 1)

resolveProfileFirstFuzzy(profiles, selector) ==
    LET target == Trim(selector)
        lower == ToLowerCase(target)
        asNum == NumberOfTarget(target)
        hits == {k \in 1..Len(profiles) :
                    \/ Includes(ToLowerCase(profiles[k].label), lower)
                    \/ Includes(ToLowerCase(profiles[k].id), lower)
                    \/ Includes(ToLowerCase(profiles[k].email), lower)}
    IN  IF target = <<>> THEN 0
        ELSE IF asNum >= 1 /\ asNum <= Len(profiles) THEN asNum
        ELSE IF hits # {} THEN CHOOSE k \in hits : \A j \in hits : k <= j
        ELSE 0

\* resolveProfile: the position (1-based) of the profile the selector names,
\* 0 for undefined.
resolveProfile(profiles, selector) ==
    LET target == Trim(selector)
        lower == ToLowerCase(target)
        asNum == NumberOfTarget(target)
        exact == {k \in 1..Len(profiles) :
                     \/ ToLowerCase(profiles[k].label) = lower
                     \/ ToLowerCase(profiles[k].id) = lower}
        fuzzy == {k \in 1..Len(profiles) :
                     \/ Includes(ToLowerCase(profiles[k].label), lower)
                     \/ Includes(ToLowerCase(profiles[k].email), lower)}
    IN  IF target = <<>> THEN 0
        ELSE IF asNum >= 1 /\ asNum <= Len(profiles) THEN asNum
        ELSE IF exact # {} THEN CHOOSE k \in exact : \A j \in exact : k <= j
        ELSE IF Cardinality(fuzzy) = 1 THEN CHOOSE k \in fuzzy : TRUE
        ELSE 0

\* raw.split(/\s+/)[0] of a trimmed text
RECURSIVE FirstWord(_)
FirstWord(t) ==
    IF t = <<>> \/ IsSpace(Head(t)) THEN <<>> ELSE <<Head(t)>> \o FirstWord(Tail(t))

\* t.slice(n)
Slice(t, n) == SubSeq(t, n + 1, Len(t))

\* sub and rest of the codexswap handler
SubOf(args) == ToLowerCase(FirstWord(Trim(args)))

RestOf(args) == Trim(Slice(Trim(args), Len(FirstWord(Trim(args)))))

TextNext == <<"n","e","x","t">>
TextToggle == <<"t","o","g","g","l","e">>
TextStatus == <<"s","t","a","t","u","s">>
TextList == <<"l","i","s","t">>
TextWho == <<"w","h","o">>
TextAdd == <<"a","d","d">>
TextSave == <<"s","a","v","e">>
TextSaveCurrent == <<"s","a","v","e","-","c","u","r","r","e","n","t">>
TextSavePrevious == <<"s","a","v","e","-","p","r","e","v","i","o","u","s">>
TextUse == <<"u","s","e">>
TextCurrent == <<"c","u","r","r","e","n","t">>
TextPrevious == <<"p","r","e","v","i","o","u","s">>
TextRm == <<"r","m">>
TextRemove == <<"r","e","m","o","v","e">>
TextRename == <<"r","e","n","a","m","e">>

\* The position of the profile with the identifier, 0 when there is none.
IndexOfId(profiles, id) ==
    IF \E k \in 1..Len(profiles) : profiles[k].id = id
    THEN CHOOSE k \in 1..Len(profiles) :
            /\ profiles[k].id = id
            /\ \A j \in 1..(k - 1) : profiles[j].id # id
    ELSE 0

\* store.profiles.filter((p) => p.id !== id)
WithoutId(profiles, id) == SelectSeq(profiles, LAMBDA p : p.id # id)

\* Lines 317-319 of the codexswap handler: the store every subcommand works
\* on, and the identifiers made so far.
\* Line 319: the profile of the live credential is the active one.
WithLiveActive(b, liveProfile) ==
    [store |-> IF liveProfile # 0
               THEN [b.store EXCEPT !.activeProfileId = b.store.profiles[liveProfile].id]
               ELSE b.store,
     ids |-> b.ids,
     liveProfile |-> liveProfile]

WithLiveFound(b, refresh) == WithLiveActive(b, findByRefresh(b.store.profiles, refresh))

Bootstrapped(cx, t) ==
    WithLiveFound(ensureBootstrapped(loadStore(cx.file, t), cx.auth, cx.backup, cx.ids, t),
                  cx.auth.refresh)

\* The number of codex-swap commands a run holds.
MaxCommands == 3

\* A handler of codex-swap: it touches auth.json's "openai-codex" entry and
\* codexswap.json only.
CodexHandler(op) ==
    /\ steps < MaxCommands
    /\ Handler(op)
    /\ UNCHANGED <<config, disk, auth, registered, now, revoked, msg, run>>

\* "No openai-codex OAuth found in auth.json."
CodexNoLive(op) ==
    /\ codex' = codex
    /\ last' = Did(op, "no-live", -1)

ProfileNotFoundSaved(op) ==
    /\ codex' = [codex EXCEPT !.file = saveStore(Bootstrapped(codex, now).store)]
    /\ last' = Did(op, "not-found", -1)

\* "Profile not found: ..." and return, with nothing saved.
ProfileNotFound(op) ==
    /\ codex' = codex
    /\ last' = Did(op, "not-found", -1)

\* Lines 297-299
SaveShownWho(b) ==
    /\ codex' = [codex EXCEPT !.file = saveStore(b.store), !.ids = b.ids]
    /\ last' = Did("codexwho", "shown", -1)

\* /codexwho
CodexWho ==
    /\ CodexHandler("codexwho")
    /\ IF NoLive(codex.auth) THEN CodexNoLive("codexwho")
       ELSE SaveShownWho(ensureBootstrapped(loadStore(codex.file, now), codex.auth,
                                            codex.backup, codex.ids, now))

\* A switch that always takes the first profile.
SwitchToFirst(b, idx) ==
    /\ codex' = [codex EXCEPT
                    !.auth = b.store.profiles[1].oauth,
                    !.file = saveStore([b.store EXCEPT !.activeProfileId =
                                 b.store.profiles[1].id]),
                    !.ids = b.ids]
    /\ last' = Did("codexswap next", "switched", 1)

\* Lines 328-334: the profile after the current one becomes live and active.
SwitchToNext(b, idx) ==
    /\ codex' = [codex EXCEPT
                    !.auth = b.store.profiles[((idx + 1) % Len(b.store.profiles)) + 1].oauth,
                    !.file = saveStore([b.store EXCEPT !.activeProfileId =
                                 b.store.profiles[((idx + 1) % Len(b.store.profiles)) + 1].id]),
                    !.ids = b.ids]
    /\ last' = Did("codexswap next", "switched", ((idx + 1) % Len(b.store.profiles)) + 1)

\* Lines 322-330
NextIn(b) ==
    IF Len(b.store.profiles) < 2
    THEN /\ codex' = [codex EXCEPT !.file = saveStore(b.store), !.ids = b.ids]
         /\ last' = Did("codexswap next", "need-two", -1)
    ELSE SwitchToNext(b,
            Max(0, IndexOfId(b.store.profiles,
                             IF b.liveProfile # 0 THEN b.store.profiles[b.liveProfile].id
                             ELSE IF b.store.activeProfileId # NoId
                             THEN b.store.activeProfileId
                             ELSE b.store.profiles[1].id) - 1))

\* /codexswap, /codexswap next, /codexswap toggle
CodexSwapNext(args) ==
    /\ SubOf(args) \in {<<>>, TextNext, TextToggle}
    /\ CodexHandler("codexswap next")
    /\ IF NoLive(codex.auth) THEN CodexNoLive("codexswap next")
       ELSE NextIn(Bootstrapped(codex, now))

\* Lines 345 and 360: the bootstrapped store is saved.
SaveShown(b, op) ==
    /\ codex' = [codex EXCEPT !.file = saveStore(b.store), !.ids = b.ids]
    /\ last' = Did(op, "shown", -1)

\* /codexswap status, list, who
CodexSwapStatus(args) ==
    /\ SubOf(args) \in {TextStatus, TextList, TextWho}
    /\ CodexHandler("codexswap status")
    /\ IF NoLive(codex.auth) THEN CodexNoLive("codexswap status")
       ELSE SaveShown(Bootstrapped(codex, now), "codexswap status")

\* Lines 370-379: the profile holding the live credential is updated.
UpdateExisting(b, live, desired, existing) ==
    /\ codex' = [codex EXCEPT
                    !.file = saveStore(StoreV2(b.store.profiles[existing].id,
                                 [b.store.profiles EXCEPT ![existing] =
                                     [@ EXCEPT
                                         !.oauth = live,
                                         !.savedAt = now,
                                         !.email = inferEmail(live),
                                         !.accountId = live.accountId,
                                         !.label = IF desired # <<>>
                                                   THEN ensureUniqueLabel(b.store.profiles,
                                                            desired,
                                                            b.store.profiles[existing].id)
                                                   ELSE @]])),
                    !.ids = b.ids]
    /\ last' = Did("codexswap add", "updated", existing)

\* Lines 382-388: a new profile is pushed for the live credential.
PushNew(b, profile) ==
    /\ codex' = [codex EXCEPT
                    !.file = saveStore(StoreV2(profile.id, Append(b.store.profiles, profile))),
                    !.ids = b.ids + 1]
    /\ last' = Did("codexswap add", "saved", Len(b.store.profiles) + 1)

\* Lines 369-382
AddIn(b, live, desired) ==
    IF findByRefresh(b.store.profiles, live.refresh) # 0
    THEN UpdateExisting(b, live, desired, findByRefresh(b.store.profiles, live.refresh))
    ELSE PushNew(b, profileFromOauth(live,
                        IF desired # <<>>
                        THEN ensureUniqueLabel(b.store.profiles, desired, NoId)
                        ELSE defaultLabelFor(live, b.store.profiles),
                        b.ids + 1, now))

\* forcedLabel || rest
LabelAsked(sub, rest) ==
    IF sub = TextSaveCurrent THEN TextCurrent
    ELSE IF sub = TextSavePrevious THEN TextPrevious
    ELSE rest

\* /codexswap add, save, save-current, save-previous
CodexSwapAdd(args) ==
    /\ SubOf(args) \in {TextAdd, TextSave, TextSaveCurrent, TextSavePrevious}
    /\ CodexHandler("codexswap add")
    /\ IF NoLive(codex.auth) THEN CodexNoLive("codexswap add")
       ELSE AddIn(Bootstrapped(codex, now), codex.auth,
                  sanitizeLabel(LabelAsked(SubOf(args), RestOf(args))))

\* Lines 394-403
UseTarget(b, target) ==
    IF target = 0
    THEN ProfileNotFound("codexswap use")
    ELSE /\ codex' = [codex EXCEPT
                         !.auth = b.store.profiles[target].oauth,
                         !.file = saveStore([b.store EXCEPT
                                      !.activeProfileId = b.store.profiles[target].id]),
                         !.ids = b.ids]
         /\ last' = Did("codexswap use", "switched", target)

UseIn(b, selector) == UseTarget(b, resolveProfile(b.store.profiles, selector))

\* /codexswap use <selector>, current, previous
CodexSwapUse(args) ==
    /\ SubOf(args) \in {TextUse, TextCurrent, TextPrevious}
    /\ CodexHandler("codexswap use")
    /\ IF NoLive(codex.auth) THEN CodexNoLive("codexswap use")
       ELSE UseIn(Bootstrapped(codex, now),
                  IF SubOf(args) \in {TextCurrent, TextPrevious} THEN SubOf(args)
                  ELSE RestOf(args))

\* The active profile after the target was filtered out (lines 413-416).
ActiveAfterRmKeep(store, targetId, remaining) == store.activeProfileId

ActiveAfterRm(store, targetId, remaining) ==
    IF store.activeProfileId = targetId
    THEN IF remaining # <<>> THEN remaining[1].id ELSE NoId
    ELSE store.activeProfileId

\* Lines 413-419
RmSave(b, target, remaining) ==
    /\ codex' = [codex EXCEPT
                    !.file = saveStore(StoreV2(ActiveAfterRm(b.store, b.store.profiles[target].id,
                                                             remaining),
                                               remaining)),
                    !.ids = b.ids]
    /\ last' = [Did("codexswap rm", "removed", target) EXCEPT
                    !.cred.refresh = b.store.profiles[target].oauth.refresh]

\* Lines 408-413
RmTarget(b, target) ==
    IF target = 0
    THEN ProfileNotFound("codexswap rm")
    ELSE RmSave(b, target, WithoutId(b.store.profiles, b.store.profiles[target].id))

RmIn(b, selector) == RmTarget(b, resolveProfile(b.store.profiles, selector))

\* /codexswap rm <selector>, remove
CodexSwapRm(args) ==
    /\ SubOf(args) \in {TextRm, TextRemove}
    /\ CodexHandler("codexswap rm")
    /\ IF NoLive(codex.auth) THEN CodexNoLive("codexswap rm")
       ELSE RmIn(Bootstrapped(codex, now), RestOf(args))

\* Lines 431-439
RenameTarget(b, target, newLabelRaw) ==
    IF target = 0
    THEN ProfileNotFound("codexswap rename")
    ELSE /\ codex' = [codex EXCEPT
                         !.file = saveStore([b.store EXCEPT
                                      !.profiles[target].label =
                                          ensureUniqueLabel(b.store.profiles, newLabelRaw,
                                                            b.store.profiles[target].id)]),
                         !.ids = b.ids]
         /\ last' = Did("codexswap rename", "renamed", target)

\* Lines 423-431
RenameIn(b, selector, newLabelRaw) ==
    IF selector = <<>> \/ newLabelRaw = <<>>
    THEN /\ codex' = codex
         /\ last' = Did("codexswap rename", "usage", -1)
    ELSE RenameTarget(b, resolveProfile(b.store.profiles, selector), newLabelRaw)

\* /codexswap rename <selector> <new-label>
CodexSwapRename(args) ==
    /\ SubOf(args) = TextRename
    /\ CodexHandler("codexswap rename")
    /\ IF NoLive(codex.auth) THEN CodexNoLive("codexswap rename")
       ELSE RenameIn(Bootstrapped(codex, now), FirstWord(RestOf(args)),
                     CollapseSpaces(Trim(Slice(RestOf(args), Len(FirstWord(RestOf(args)))))))

\* Every other subcommand: the help text.
CodexSwapHelp(args) ==
    /\ SubOf(args) \notin {<<>>, TextNext, TextToggle, TextStatus, TextList, TextWho, TextAdd,
                           TextSave, TextSaveCurrent, TextSavePrevious, TextUse, TextCurrent,
                           TextPrevious, TextRm, TextRemove, TextRename}
    /\ CodexHandler("codexswap help")
    /\ IF NoLive(codex.auth) THEN CodexNoLive("codexswap help")
       ELSE /\ codex' = codex
            /\ last' = Did("codexswap help", "help", -1)

(***************************************************************************)
(* The environment's steps and start-up.                                   *)
(***************************************************************************)
\* pi's own /login google-antigravity for person k rewrites auth.json.
Login(k, withEmail) ==
    /\ Handler("login")
    /\ UNCHANGED <<config, disk, registered, now, revoked, msg, codex>>
    /\ auth' = LoginEntry(k, withEmail)
    /\ last' = Did("login", "none", -1)
    /\ run' = NewRun(config)

\* The instants at which something changes: a rate limit ends, a cached
\* token expires.
ResetInstants(cfg) ==
    {cfg.accounts[i].rateLimitResetTime : i \in 1..Len(cfg.accounts)} \ {UNDEF}

ExpiryInstants(cfg) ==
    {cfg.accounts[i].accessTokenExpires : i \in 1..Len(cfg.accounts)} \ {UNDEF}

\* Time passes: to just before or exactly to such an instant.
Tick(t) ==
    /\ Handler("tick")
    /\ t > now
    /\ \/ t \in ResetInstants(config) \cup ExpiryInstants(config)
       \/ t + 1 \in ResetInstants(config)
    /\ UNCHANGED <<config, disk, auth, registered, revoked, msg, codex>>
    /\ now' = t
    /\ last' = Did("tick", "none", -1)
    /\ run' = NewRun(config)

TickTargets ==
    LET instants == ResetInstants(config) \cup ExpiryInstants(config)
    IN  instants \cup {t - 1 : t \in instants}

\* The extension's entry point: config = loadConfig(), and the provider
\* override is registered only when the pool is not empty.
Start(file) ==
    /\ config = loadConfig(file)
    /\ registered = (Len(loadConfig(file).accounts) > 0)
    /\ call = Idle

Restart ==
    /\ Handler("restart")
    /\ UNCHANGED <<disk, auth, now, revoked, msg, codex>>
    /\ config' = loadConfig(disk)
    /\ registered' = (Len(config'.accounts) > 0)
    /\ last' = Did("restart", "none", -1)
    /\ run' = NewRun(config')

\* An account after a credential request and a rate-limit report: the token
\* of refreshAccessToken, the use refreshToken counted, the reset instant and
\* the text markAccountRateLimited left.
UsedAccount(k) ==
    [MigratedAccount(k) EXCEPT
        !.accessToken = AccessTokens[k],
        !.accessTokenExpires = T0 + (ExpiresIn * 1000) - (5 * 60 * 1000),
        !.lastUsed = T0,
        !.requestCount = k,
        !.rateLimitResetTime = T0 + 60000,
        !.lastError = RateLimitedUntil(T0 + 60000)]

\* The document a session that used the first n people left behind.
UsedFile(n, activeIndex, mode) ==
    saveConfig([version |-> 1,
                accounts |-> [k \in 1..n |-> UsedAccount(k)],
                activeIndex |-> activeIndex,
                rotationMode |-> mode])

\* A document holding the first n people, as migrated or hand-written.
InitialFile(n, activeIndex, mode) ==
    saveConfig([version |-> 1,
                accounts |-> [k \in 1..n |-> MigratedAccount(k)],
                activeIndex |-> activeIndex,
                rotationMode |-> mode])

Init ==
    /\ \E n \in 0..MaxAccounts, mode \in RotationModes :
       \E activeIndex \in 0..Max(n - 1, 0) :
            disk = InitialFile(n, activeIndex, mode)
    /\ Start(disk)
    /\ auth = NoAuth
    /\ now = T0
    /\ revoked \in SUBSET {RefreshSecrets[1], RefreshSecrets[2]}
    /\ last = NoLast
    /\ run = NewRun(config)
    /\ steps = 0
    /\ flights = <<>>
    /\ msg = <<>>
    /\ codex = NoCodex

Next ==
    \/ RefreshTokenBegin
    \/ RefreshTokenResume
    \/ \E isAntigravity \in BOOLEAN : TurnStart(isAntigravity)
    \/ \E e \in TurnEndEvents :
            TurnEnd(e.isAntigravity, e.stopReason, e.errorMessage)
    \/ \E args \in RemoveArgs : AgRemove(args)
    \/ AgNext
    \/ \E t \in TickTargets : Tick(t)

Spec == Init /\ [][Next]_vars

(***************************************************************************)
(* getNextAccountIndex on its own: any pool of up to MaxAccounts accounts, *)
(* each without a reset instant or with one in the past, now, or ahead.    *)
(***************************************************************************)
ResetChoices == {UNDEF, T0 - 1, T0, T0 + 10000, T0 + 30000}

PoolOf(n, resets, activeIndex, mode) ==
    [version |-> 1,
     accounts |-> [k \in 1..n |->
                      [MigratedAccount(k) EXCEPT !.rateLimitResetTime = resets[k]]],
     activeIndex |-> activeIndex,
     rotationMode |-> mode]

InitSelect ==
    /\ \E n \in 0..MaxAccounts, mode \in RotationModes :
       \E resets \in [1..n -> ResetChoices], activeIndex \in 0..Max(n - 1, 0) :
            config = PoolOf(n, resets, activeIndex, mode)
    /\ disk = saveConfig(config)
    /\ registered = (Len(config.accounts) > 0)
    /\ call = Idle
    /\ auth = NoAuth
    /\ now = T0
    /\ revoked = {}
    /\ last = NoLast
    /\ run = NewRun(config)
    /\ steps = 0
    /\ flights = <<>>
    /\ msg = <<>>
    /\ codex = NoCodex

\* One call of getNextAccountIndex(forceSwitch); last keeps what it returned.
Select(forceSwitch) ==
    /\ last.op = "none"
    /\ last' = [NoLast EXCEPT !.op = "getNextAccountIndex",
                              !.idx = getNextAccountIndex(config, now, forceSwitch),
                              !.force = forceSwitch]
    /\ UNCHANGED <<config, disk, auth, registered, now, revoked, call, run, steps, msg, codex, flights>>

NextSelect == \E forceSwitch \in BOOLEAN : Select(forceSwitch)

SpecSelect == InitSelect /\ [][NextSelect]_vars

(***************************************************************************)
(* Properties of the selection policy.                                     *)
(***************************************************************************)
\* Availability as the specification words it: no reset instant set, or the
\* reset instant is not after t.
ResetPassed(a, t) == a.rateLimitResetTime = UNDEF \/ a.rateLimitResetTime <= t

Indices(cfg) == 0..(Len(cfg.accounts) - 1)

AvailableIndices(cfg, t) == {i \in Indices(cfg) : ResetPassed(AccountAt(cfg, i), t)}

\* C1: for every non-empty pool, both rotation modes and both values of
\* forceSwitch, when at least one account is available at now,
\* getNextAccountIndex returns the index of an available account, never that
\* of a rate-limited one.
C1_ReturnsAvailable ==
    (/\ last.op = "getNextAccountIndex"
     /\ Len(config.accounts) > 0
     /\ AvailableIndices(config, now) # {})
    => last.idx \in AvailableIndices(config, now)

\* C1's case: use-until-exhausted, the active account and its successor are
\* rate-limited, a later one is available, and a forced call returned it.
C1_Witness ==
    /\ last.op = "getNextAccountIndex"
    /\ last.force
    /\ config.rotationMode = UseUntilExhausted
    /\ Len(config.accounts) = 3
    /\ config.activeIndex = 1
    /\ AvailableIndices(config, now) = {0}
    /\ last.idx = 0

\* The lowest index among the accounts whose reset instant is soonest.
SoonestLowest(cfg) ==
    CHOOSE i \in Indices(cfg) :
        \A j \in Indices(cfg) :
            /\ AccountAt(cfg, i).rateLimitResetTime <= AccountAt(cfg, j).rateLimitResetTime
            /\ (AccountAt(cfg, j).rateLimitResetTime = AccountAt(cfg, i).rateLimitResetTime
                    => i <= j)

\* C9: when every account of a non-empty pool is rate-limited,
\* getNextAccountIndex returns the index of the account whose reset instant
\* is soonest, the lowest index among equals; never none.
C9_SoonestLowestIndex ==
    (/\ last.op = "getNextAccountIndex"
     /\ Len(config.accounts) > 0
     /\ AvailableIndices(config, now) = {})
    => last.idx = SoonestLowest(config)

\* Scenario C: A resets in 10 s, B in 30 s, the call returned A.
C9_ScenarioC ==
    /\ last.op = "getNextAccountIndex"
    /\ Len(config.accounts) = 2
    /\ AccountAt(config, 0).rateLimitResetTime = now + 10000
    /\ AccountAt(config, 1).rateLimitResetTime = now + 30000
    /\ config.activeIndex = 1
    /\ last.idx = 0

(***************************************************************************)
(* Properties of the refreshToken hook.  run.picks lists, for the          *)
(* refreshToken calls made since the last other handler, every index the   *)
(* calls made the active one, in order; run.start is the active index the  *)
(* first of them found.                                                    *)
(***************************************************************************)
\* The first available index met going round the pool from just after p.
NextAvailableAfter(cfg, t, p) ==
    LET n == Len(cfg.accounts)
        d == CHOOSE d \in 1..n :
                /\ ((p + d) % n) \in AvailableIndices(cfg, t)
                /\ \A e \in 1..(d - 1) : ((p + e) % n) \notin AvailableIndices(cfg, t)
    IN  (p + d) % n

PickedSet == {run.picks[k] : k \in 1..Len(run.picks)}

\* C2: in round-robin mode, consecutive refreshToken calls over a pool whose
\* availability does not change select the accounts in cyclic index order,
\* each selection being the next available account after the one before it,
\* the first after the initial active index; after N calls (N the pool size)
\* every available account has been selected.
C2_RoundRobinCycle ==
    (/\ config.rotationMode = RoundRobin
     /\ registered
     /\ AvailableIndices(config, now) # {})
    => /\ \A k \in 1..Len(run.picks) :
            run.picks[k] =
                NextAvailableAfter(config, now,
                                   IF k = 1 THEN run.start ELSE run.picks[k - 1])
       /\ (run.calls >= Len(config.accounts)
              => AvailableIndices(config, now) \subseteq PickedSet)

\* Scenario A: three available accounts, active = 0, three calls in a row,
\* each returning a credential: they selected accounts 1, 2, 0.
C2_ScenarioA ==
    /\ config.rotationMode = RoundRobin
    /\ Len(config.accounts) = 3
    /\ AvailableIndices(config, now) = {0, 1, 2}
    /\ run.start = 0
    /\ run.calls = 3
    /\ run.picks = <<1, 2, 0>>
    /\ last.op = "refreshToken"
    /\ last.result = "credential"
    /\ last.cred.email = AccountAt(config, 0).email

\* Token retrieval for account i fails at t: no valid cached token, and the
\* token endpoint rejects its refresh secret.
RetrievalFails(cfg, i, t) ==
    /\ ~CachedTokenValid(AccountAt(cfg, i), t)
    /\ ~RefreshAccepted(AccountAt(cfg, i))

\* A refreshToken call has just ended after token retrieval failed for the
\* account it selected, last.idx, and the forced advance moved the active
\* index to another available account.
FailedAndAdvanced ==
    /\ last.op = "refreshToken"
    /\ call.pc = "idle"
    /\ HasAccountAt(config, last.idx)
    /\ RetrievalFails(config, last.idx, now)
    /\ config.activeIndex # last.idx
    /\ config.activeIndex \in AvailableIndices(config, now)

\* C3: when token retrieval fails for the selected account and the account
\* the call force-advances to is available and its token retrieval succeeds,
\* the same call retries once and returns that account's credential.
C3_FallbackReturnsCredential ==
    (FailedAndAdvanced /\ ~RetrievalFails(config, config.activeIndex, now))
    => /\ last.result = "credential"
       /\ last.attempts = 2
       /\ last.cred.email = AccountAt(config, config.activeIndex).email

ListedTriggers ==
    {<<"4","2","9">>, <<"r","a","t","e">>, <<"q","u","o","t","a">>,
     <<"r","e","s","o","u","r","c","e"," ","e","x","h","a","u","s","t","e","d">>}

HasListedTrigger(m) == \E w \in ListedTriggers : Includes(ToLowerCase(m), w)

\* The trigger the code adds to them.
HasJoinedTrigger(m) ==
    Includes(ToLowerCase(m),
             <<"r","e","s","o","u","r","c","e","e","x","h","a","u","s","t","e","d">>)

\* The delay each text of ErrorTexts carries, in ms.
ExpectedDelay(m) ==
    CASE m = TextScenarioB -> 150000
      [] m = TextRetry0s -> 0
      [] OTHER -> 60000

ResetsOf(cfg) == [i \in 1..Len(cfg.accounts) |-> cfg.accounts[i].rateLimitResetTime]

\* The active account is marked with now + the text's delay and the active
\* index moves to the next available account.
MarkedAndAdvanced(m) ==
    /\ AccountAt(config', config.activeIndex).rateLimitResetTime = now + ExpectedDelay(m)
    /\ \A i \in Indices(config) \ {config.activeIndex} :
            AccountAt(config', i).rateLimitResetTime = AccountAt(config, i).rateLimitResetTime
    /\ (AvailableIndices(config', now) # {}
          => config'.activeIndex = NextAvailableAfter(config', now, config.activeIndex))

LeftAlone ==
    /\ ResetsOf(config') = ResetsOf(config)
    /\ config'.activeIndex = config.activeIndex

\* A failure report with text m on a non-empty pool.
Reported(m) == Len(config.accounts) > 0 /\ TurnEnd(TRUE, "error", m)

\* C5: a failure report whose text contains, case-insensitively, "429",
\* "rate", "quota", "resource exhausted" or "resourceexhausted" marks the
\* active account with reset instant = now + the extracted delay (150000 ms
\* for "429 RESOURCE_EXHAUSTED, retry in 2m30s") and moves the active index
\* to the next available account; a text containing none of the five leaves
\* every reset instant and the active index unchanged.
C5_TriggerMarksAndAdvances ==
    [][\A m \in ErrorTexts \ {<<>>} :
          Reported(m) =>
             IF HasListedTrigger(m) \/ HasJoinedTrigger(m)
             THEN MarkedAndAdvanced(m)
             ELSE LeftAlone]_vars

\* C5 as stated, with the four listed triggers only: a text containing none
\* of them leaves every reset instant and the active index unchanged.
C5_ListedTriggersOnly ==
    [][\A m \in ErrorTexts \ {<<>>} :
          Reported(m) =>
             IF HasListedTrigger(m) THEN MarkedAndAdvanced(m) ELSE LeftAlone]_vars

\* Scenario B: account 0 was active, the report carried 2m30s, account 0 is
\* marked until now + 150000 and account 1 is active.
C5_ScenarioB ==
    /\ last.op = "turn_end"
    /\ last.result = "rate-limited"
    /\ last.idx = 0
    /\ last.resetMs = 150000
    /\ Len(config.accounts) >= 2
    /\ AccountAt(config, 0).rateLimitResetTime = now + 150000
    /\ config.activeIndex = 1

(***************************************************************************)
(* The delay extraction on its own: texts put together from up to MaxAtoms *)
(* pieces of durations, and the texts of ErrorTexts.                       *)
(***************************************************************************)
Atoms ==
    {<<"1","h">>, <<"2","m">>, <<"3","s">>, <<"5","M">>, <<"4">>, <<" ">>,
     <<"s">>, <<"x">>}

RECURSIVE Flatten(_)
Flatten(pieces) ==
    IF pieces = <<>> THEN <<>> ELSE Head(pieces) \o Flatten(Tail(pieces))

DelayTexts ==
    ErrorTexts \cup
    UNION {{Flatten(f) : f \in [1..k -> Atoms]} : k \in 0..MaxAtoms}

InitDelay ==
    /\ msg \in DelayTexts
    /\ codex = NoCodex
    /\ config = EmptyConfig
    /\ disk = NoFile
    /\ registered = FALSE
    /\ call = Idle
    /\ auth = NoAuth
    /\ now = T0
    /\ revoked = {}
    /\ last = NoLast
    /\ run = NewRun(config)
    /\ steps = 0
    /\ flights = <<>>

\* turn_end's delay extraction applied to msg; last keeps the delay.
Extract ==
    /\ last.op = "none"
    /\ last' = [NoLast EXCEPT !.op = "extract", !.resetMs = ExtractResetMs(msg)]
    /\ UNCHANGED <<config, disk, auth, registered, now, revoked, call, run, steps, msg, codex, flights>>

NextDelay == Extract

SpecDelay == InitDelay /\ [][NextDelay]_vars

(***************************************************************************)
(* Properties of the delay extraction.  A duration is a stretch of the     *)
(* text: digits, then a unit letter in either case, and so on.             *)
(***************************************************************************)
AllDigits(t) == Len(t) > 0 /\ \A k \in 1..Len(t) : IsDigit(t[k])

AllSpaces(t) == \A k \in 1..Len(t) : IsSpace(t[k])

RECURSIVE NumberOf(_)
NumberOf(t) ==
    IF t = <<>> THEN 0
    ELSE NumberOf(SubSeq(t, 1, Len(t) - 1)) * 10 + DigitValue(t[Len(t)])

Unit(t, k, c) == t[k] = c \/ LowerChar(t[k]) = c

\* The <h>h<m>m<s>s durations of t, each with where it starts and its ms.
DurationsHMS(t) ==
    {d \in [start : 1..Len(t), h : 1..Len(t), m : 1..Len(t), s : 1..Len(t)] :
        /\ d.start < d.h /\ d.h + 1 < d.m /\ d.m + 1 < d.s
        /\ Unit(t, d.h, "h") /\ Unit(t, d.m, "m") /\ Unit(t, d.s, "s")
        /\ AllDigits(SubSeq(t, d.start, d.h - 1))
        /\ AllDigits(SubSeq(t, d.h + 1, d.m - 1))
        /\ AllDigits(SubSeq(t, d.m + 1, d.s - 1))}

MsHMS(t, d) ==
    (3600 * NumberOf(SubSeq(t, d.start, d.h - 1))
       + 60 * NumberOf(SubSeq(t, d.h + 1, d.m - 1))
       + NumberOf(SubSeq(t, d.m + 1, d.s - 1))) * 1000

\* The <m>m<s>s durations of t.
DurationsMS(t) ==
    {d \in [start : 1..Len(t), m : 1..Len(t), s : 1..Len(t)] :
        /\ d.start < d.m /\ d.m + 1 < d.s
        /\ Unit(t, d.m, "m") /\ Unit(t, d.s, "s")
        /\ AllDigits(SubSeq(t, d.start, d.m - 1))
        /\ AllDigits(SubSeq(t, d.m + 1, d.s - 1))}

MsMS(t, d) ==
    (60 * NumberOf(SubSeq(t, d.start, d.m - 1))
       + NumberOf(SubSeq(t, d.m + 1, d.s - 1))) * 1000

\* The <n>s durations of t: digits, then s; with spaced, white space may
\* stand between the digits and the s.
DurationsS(t, spaced) ==
    {d \in [start : 1..Len(t), gap : 1..Len(t), s : 1..Len(t)] :
        /\ d.start < d.gap /\ d.gap <= d.s
        /\ (spaced \/ d.gap = d.s)
        /\ Unit(t, d.s, "s")
        /\ AllDigits(SubSeq(t, d.start, d.gap - 1))
        /\ AllSpaces(SubSeq(t, d.gap, d.s - 1))}

MsS(t, d) == NumberOf(SubSeq(t, d.start, d.gap - 1)) * 1000

\* The duration that starts first in the text.
FirstOf(ds) == CHOOSE d \in ds : \A e \in ds : d.start <= e.start

\* Most specific pattern wins; 60000 ms when the text holds no duration.
DelayOf(t, spaced) ==
    IF DurationsHMS(t) # {} THEN MsHMS(t, FirstOf(DurationsHMS(t)))
    ELSE IF DurationsMS(t) # {} THEN MsMS(t, FirstOf(DurationsMS(t)))
    ELSE IF DurationsS(t, spaced) # {} THEN MsS(t, FirstOf(DurationsS(t, spaced)))
    ELSE 60000

\* C6: the extracted delay follows most-specific-pattern-wins: an
\* <h>h<m>m<s>s duration yields (3600h+60m+s)*1000 ms; otherwise an <m>m<s>s
\* duration yields (60m+s)*1000 ms; otherwise digits followed, after
\* optional white space, by s yield n*1000 ms; otherwise exactly 60000 ms.
C6_MostSpecificDelay ==
    last.op = "extract" => last.resetMs = DelayOf(msg, TRUE)

\* C6 as stated, the bare duration being digits directly followed by s.
C6_BareSecondsUnspaced ==
    last.op = "extract" => last.resetMs = DelayOf(msg, FALSE)

\* C6's cases: a text holding an <m>m<s>s and an earlier <n>s duration but
\* no <h>h<m>m<s>s one, extracted as minutes and seconds.
C6_MinutesOverSeconds ==
    /\ last.op = "extract"
    /\ msg = <<"3","s","2","m","3","s">>
    /\ last.resetMs = 123000

(***************************************************************************)
(* Properties of a refreshToken call and the failure report before it.     *)
(***************************************************************************)
EmailsOf(cfg, indices) == {AccountAt(cfg, i).email : i \in indices}

\* A refreshToken call has just ended, and the handler before it was a
\* failure report that marked account last.prev.idx rate-limited.
CallAfterRateLimitReport ==
    /\ last.op = "refreshToken"
    /\ call.pc = "idle"
    /\ last.prev.op = "turn_end"
    /\ last.prev.result = "rate-limited"
    /\ AvailableIndices(config, now) # {}

C8_UsesSelectedAccount ==
    (/\ last.op = "refreshToken"
     /\ call.pc = "idle"
     /\ config.rotationMode = UseUntilExhausted
     /\ last.result = "credential"
     /\ AvailableIndices(config, now) # {})
    => /\ last.cred.email \in EmailsOf(config, AvailableIndices(config, now))
       /\ config.activeIndex \in AvailableIndices(config, now)

(***************************************************************************)
(* Properties of availability over time.                                   *)
(***************************************************************************)
AvailableEmails(cfg, t) ==
    {getAvailableAccounts(cfg, t)[k].email : k \in 1..Len(getAvailableAccounts(cfg, t))}

\* C10: an account with reset instant T is unavailable at every time before
\* T and available from T on, with no explicit clear; and when every account
\* has a reset instant and the soonest has passed, a selection, forced or
\* not, returns an available account.
C10_AvailableAgainFromReset ==
    /\ \A i \in Indices(config) :
          LET a == AccountAt(config, i)
          IN  a.rateLimitResetTime # UNDEF
                 => /\ now < a.rateLimitResetTime => a.email \notin AvailableEmails(config, now)
                    /\ now >= a.rateLimitResetTime => a.email \in AvailableEmails(config, now)
    /\ \A forceSwitch \in BOOLEAN :
          (/\ Len(config.accounts) > 0
           /\ \A i \in Indices(config) : AccountAt(config, i).rateLimitResetTime # UNDEF
           /\ \E i \in Indices(config) : now >= AccountAt(config, i).rateLimitResetTime)
          => AccountAt(config, getNextAccountIndex(config, now, forceSwitch)).email
                \in AvailableEmails(config, now)

\* C10's case: every account is marked, the clock stands exactly at the
\* soonest reset instant, later ones are still ahead, and a refreshToken
\* call has returned the credential of the account whose limit has ended.
C10_Witness ==
    /\ Len(config.accounts) >= 2
    /\ \A i \in Indices(config) : AccountAt(config, i).rateLimitResetTime # UNDEF
    /\ \E i \in Indices(config) :
          /\ AccountAt(config, i).rateLimitResetTime = now
          /\ AccountAt(config, i).lastError = RateLimitedUntil(now)
          /\ last.op = "refreshToken"
          /\ last.result = "credential"
          /\ last.cred.email = AccountAt(config, i).email
    /\ \E j \in Indices(config) : AccountAt(config, j).rateLimitResetTime > now

(***************************************************************************)
(* The commands on their own.  A second pi session running the same        *)
(* extension shares CONFIG_FILE: what it persists reaches this session     *)
(* only through loadConfig.                                                *)
(***************************************************************************)
\* The other session's /ag-mode: it persists its document with the mode set.
OtherSessionSetsMode(mode) ==
    /\ Handler("other-session")
    /\ disk.exists
    /\ disk.data.rotationMode # mode
    /\ disk' = saveConfig([loadConfig(disk) EXCEPT !.rotationMode = mode])
    /\ last' = Did("other-session", "none", -1)
    /\ run' = run
    /\ UNCHANGED <<config, auth, registered, now, revoked, msg, codex>>

\* The other session's /ag-import of person k's credential.
OtherSessionImports(k) ==
    /\ Handler("other-session")
    /\ disk.exists
    /\ \A i \in 1..Len(disk.data.accounts) :
            disk.data.accounts[i].refreshToken # RefreshSecrets[k]
    /\ disk' = saveConfig([loadConfig(disk) EXCEPT
                              !.accounts = Append(@, MigratedAccount(k))])
    /\ last' = Did("other-session", "none", -1)
    /\ run' = run
    /\ UNCHANGED <<config, auth, registered, now, revoked, msg, codex>>

\* The one failure report of this specification.
ReportRateLimit == TurnEnd(TRUE, "error", TextRateLimit)

InitCmd ==
    /\ \E n \in 0..(MaxAccounts - 1), mode \in RotationModes :
       \E activeIndex \in 0..Max(n - 1, 0) :
            disk = InitialFile(n, activeIndex, mode)
    /\ Start(disk)
    /\ now = T0
    /\ auth \in {NoAuth} \cup {LoginEntry(k, e) : k \in People, e \in BOOLEAN}
    /\ revoked = {}
    /\ last = NoLast
    /\ run = NewRun(config)
    /\ steps = 0
    /\ flights = <<>>
    /\ msg = <<>>
    /\ codex = NoCodex

NextCmd ==
    \/ \E userinfoEmail \in {<<>>, Emails[MaxAccounts]} : AgImport(userinfoEmail)
    \/ \E args \in RemoveArgs : AgRemove(args)
    \/ \E args \in ModeArgs : AgMode(args)
    \/ AgNext
    \/ AgClear
    \/ ReportRateLimit
    \/ RefreshTokenBegin
    \/ RefreshTokenResume
    \/ \E mode \in RotationModes : OtherSessionSetsMode(mode)
    \/ \E k \in People : OtherSessionImports(k)

SpecCmd == InitCmd /\ [][NextCmd]_vars

(***************************************************************************)
(* Properties of the pool's commands.                                      *)
(***************************************************************************)
ValidActive(cfg) ==
    IF Len(cfg.accounts) = 0
    THEN cfg.activeIndex = 0 /\ ~HasAccountAt(cfg, cfg.activeIndex)
    ELSE cfg.activeIndex \in Indices(cfg)

UniqueRefresh(cfg) ==
    \A i, j \in 1..Len(cfg.accounts) :
        cfg.accounts[i].refreshToken = cfg.accounts[j].refreshToken => i = j

\* An /ag-import while the session's pool already holds the refresh secret
\* of auth.json's entry.
ImportOfKnown ==
    /\ auth.present
    /\ \E i \in 1..Len(config.accounts) : config.accounts[i].refreshToken = auth.refresh
    /\ \E userinfoEmail \in {<<>>, Emails[MaxAccounts]} : AgImport(userinfoEmail)

\* C13: importing a credential whose refresh secret is already in the pool
\* changes nothing (accounts, active index, mode, persisted document) and
\* reports that the account exists; no two accounts of the pool ever share
\* a refresh secret.
C13_ImportIdempotent ==
    /\ [](UniqueRefresh(config) /\ UniqueRefresh(loadConfig(disk)))
    /\ [][ImportOfKnown =>
             /\ config' = config
             /\ disk' = disk
             /\ last'.op = "ag-import"
             /\ last'.result = "exists"]_vars

\* C13's case: the credential of auth.json was imported (request count 0,
\* as /ag-import writes it), and a second import of it has just been
\* answered with "exists"; the pool holds it once.
C13_ImportedTwice ==
    /\ last.op = "ag-import"
    /\ last.result = "exists"
    /\ Cardinality({i \in 1..Len(config.accounts) :
                       config.accounts[i].refreshToken = auth.refresh}) = 1
    /\ \E i \in 1..Len(config.accounts) :
          /\ config.accounts[i].refreshToken = auth.refresh
          /\ config.accounts[i].requestCount = 0

SecretsOf(file) ==
    {file.data.accounts[i].refreshToken : i \in 1..Len(file.data.accounts)}

PoolCommands == {"ag-import", "ag-remove", "ag-mode", "ag-next", "ag-clear"}

\* C15: whatever a mutating command persists contains every change that was
\* persisted before it ran: the mode, unless the command sets it, and every
\* account, but for the one /ag-remove takes out.
C15_CommandsReloadFirst ==
    [][(/\ steps' = steps + 1
        /\ last'.op \in PoolCommands
        /\ disk.exists
        /\ disk' # disk)
       => /\ (last'.op # "ag-mode"
                => disk'.data.rotationMode = disk.data.rotationMode)
          /\ (last'.op # "ag-remove" => SecretsOf(disk) \subseteq SecretsOf(disk'))
          /\ (last'.op = "ag-remove"
                => /\ SecretsOf(disk') \subseteq SecretsOf(disk)
                   /\ Cardinality(SecretsOf(disk')) = Cardinality(SecretsOf(disk)) - 1)]_vars

\* The accounts whose email holds the selector as a substring, ignoring case.
SubstringHits(cfg, arg) ==
    {i \in Indices(cfg) :
        Includes(ToLowerCase(AccountAt(cfg, i).email), ToLowerCase(arg))}

\* The selector is no position of the pool, equals no email, and is a
\* substring of more than one.
AmbiguousSelector(cfg, args) ==
    LET arg == Trim(args)
    IN  /\ arg # <<>>
        /\ ~(AllDigits(arg) /\ NumberOf(arg) \in 1..Len(cfg.accounts))
        /\ \A i \in Indices(cfg) : ToLowerCase(AccountAt(cfg, i).email) # ToLowerCase(arg)
        /\ Cardinality(SubstringHits(cfg, arg)) > 1

\* C17: /ag-remove with a selector that matches more than one account only
\* as a substring removes no account and reports it as not found.
C17_AmbiguousRemovesNothing ==
    [][\A args \in RemoveArgs :
          (AmbiguousSelector(loadConfig(disk), args) /\ AgRemove(args))
          => /\ disk' = disk
             /\ config'.accounts = loadConfig(disk).accounts
             /\ last'.result = "not-found"]_vars

(***************************************************************************)
(* The commands that take a selector, of both extensions: the pool's        *)
(* /ag-remove and codex-swap's commands, started from a pool file or from   *)
(* a codexswap.json of either version.                                      *)
(***************************************************************************)
\* What pi's /login openai-codex stores for person k: the access token of the
\* first two people carries their email; the third has an account id only.
CodexCred(k) ==
    Oauth(RefreshSecrets[k], AccessTokens[k],
          IF k <= 2 THEN Emails[k] ELSE <<>>,
          IF k <= 2 THEN <<>> ELSE <<"a","c","c","t","-">> \o NumberText(k))

\* The slot the first version of the extension saved for person k.
SlotOf(k, labelled) ==
    LegacySlot(IF labelled THEN BeforeAt(Emails[k]) ELSE <<>>, T0 - 1000,
               Emails[k], <<>>, CodexCred(k))

Cmd(sub, rest) == sub \o <<" ">> \o rest

CodexSelectors ==
    {<<"1">>, <<"2">>, <<"w","o">>, <<"W","O","R","K","2">>, <<"z","z">>, <<>>}

NextArgs == {<<>>, <<"N","e","x","t">>}
StatusArgs == {TextStatus, TextWho}
AddArgs == {TextAdd, Cmd(TextAdd, <<"w","o","r","k">>), TextSaveCurrent}
UseArgs == {Cmd(TextUse, sel) : sel \in {<<"2">>, <<"w","o">>, <<"z","z">>}} \cup {TextPrevious}
RmArgs == {Cmd(TextRm, sel) : sel \in CodexSelectors}
RenameArgs ==
    {Cmd(TextRename, Cmd(sel, label)) :
        sel \in {<<"1">>, <<"z","z">>},
        label \in {<<"W","o","r","k","2">>, <<>>}}
HelpArgs == {<<"h","e","l","p">>}

\* /login openai-codex as person k, which pi performs.
CodexLogin(k) ==
    /\ codex.auth # CodexCred(k)
    /\ CodexHandler("login")
    /\ codex' = [codex EXCEPT !.auth = CodexCred(k)]
    /\ last' = Did("login", "none", -1)

InitSwap ==
    /\ \/ /\ \E n \in 0..MaxAccounts : \E activeIndex \in 0..Max(n - 1, 0) :
                disk \in {InitialFile(n, activeIndex, RoundRobin),
                          UsedFile(n, activeIndex, UseUntilExhausted)}
          /\ codex = NoCodex
       \/ /\ disk = InitialFile(0, 0, RoundRobin)
          /\ \E live \in {NoOauth} \cup {CodexCred(k) : k \in People},
                backup \in {NoOauth, CodexCred(2)},
                file \in {NoStoreFile}
                         \cup {LegacyStore(a, c, p) :
                                 a \in {"", "current", "previous"},
                                 c \in {NoSlot, SlotOf(1, FALSE)},
                                 p \in {NoSlot, SlotOf(1, TRUE), SlotOf(2, TRUE)}} :
                codex = [auth |-> live, file |-> file, backup |-> backup, ids |-> 0]
    /\ Start(disk)
    /\ now = T0
    /\ auth = NoAuth
    /\ revoked = {}
    /\ last = NoLast
    /\ run = NewRun(config)
    /\ steps = 0
    /\ flights = <<>>
    /\ msg = <<>>

NextSwap ==
    \/ \E args \in RemoveArgs : AgRemove(args)
    \/ \E k \in People : CodexLogin(k)
    \/ CodexWho
    \/ \E args \in NextArgs : CodexSwapNext(args)
    \/ \E args \in StatusArgs : CodexSwapStatus(args)
    \/ \E args \in AddArgs : CodexSwapAdd(args)
    \/ \E args \in UseArgs : CodexSwapUse(args)
    \/ \E args \in RmArgs : CodexSwapRm(args)
    \/ \E args \in RenameArgs : CodexSwapRename(args)
    \/ \E args \in HelpArgs : CodexSwapHelp(args)

SpecSwap == InitSwap /\ [][NextSwap]_vars

\* /ag-remove has just removed the account that was active in the document
\* it loaded.
PoolRemovedActive ==
    /\ last'.op = "ag-remove"
    /\ last'.result = "removed"
    /\ last'.idx = loadConfig(disk).activeIndex

\* /codexswap rm has just removed the profile that was active in the store
\* it worked on.
CodexRemovedActive ==
    /\ last'.op = "codexswap rm"
    /\ last'.result = "removed"
    /\ Bootstrapped(codex, now).store.profiles[last'.idx].id
          = Bootstrapped(codex, now).store.activeProfileId

CodexRmMakesFirstActive ==
    [][CodexRemovedActive =>
          LET after == loadStore(codex'.file, now)
          IN  after.activeProfileId = IF after.profiles # <<>> THEN after.profiles[1].id
                                      ELSE NoId]_vars

\* C12: removing the account or profile that is active makes the first of
\* the remaining ones (position 1) active, or leaves none active when none
\* remain, in the pool's /ag-remove as in /codexswap rm.
C12_RemoveActiveMakesFirstActive ==
    [][/\ PoolRemovedActive =>
             (config'.accounts # <<>> => config'.activeIndex = 0)
       /\ CodexRemovedActive =>
             LET after == loadStore(codex'.file, now)
             IN  after.activeProfileId = IF after.profiles # <<>> THEN after.profiles[1].id
                                         ELSE NoId]_vars

\* The profiles codexswap.json holds, as the next command will load them.
SavedProfiles == loadStore(codex.file, now).profiles

ProfilesHolding(profiles, refresh) ==
    {k \in 1..Len(profiles) : profiles[k].oauth.refresh = refresh}

OneProfilePerCredential ==
    \A k \in 1..Len(SavedProfiles) :
        Cardinality(ProfilesHolding(SavedProfiles, SavedProfiles[k].oauth.refresh)) = 1

\* A command that saves runs while the live credential is already stored.
ObservedStoredCredential ==
    /\ ~NoLive(codex.auth)
    /\ ProfilesHolding(SavedProfiles, codex.auth.refresh) # {}
    /\ codex'.file # codex.file

\* C14: the store never holds two profiles for one credential (one refresh
\* secret), whatever commands ran; a command that finds the live credential
\* already stored adds no profile for it, and /codexswap add then updates
\* the profile that holds it.
C14_OneProfilePerCredential ==
    /\ []OneProfilePerCredential
    /\ [][ObservedStoredCredential =>
             LET after == loadStore(codex'.file, now).profiles
                 held == ProfilesHolding(after, codex.auth.refresh)
             IN  /\ Cardinality(held) <= 1
                 /\ last'.op = "codexswap add" =>
                       /\ last'.result = "updated"
                       /\ Cardinality(held) = 1
                       /\ \A k \in held : after[k].oauth = codex.auth /\ k = last'.idx]_vars

\* /codexswap add re-saved a stored credential in a store of two profiles.
C14_ResavedStored ==
    /\ last.op = "codexswap add"
    /\ last.result = "updated"
    /\ Len(SavedProfiles) >= 2
    /\ ProfilesHolding(SavedProfiles, codex.auth.refresh) # {}

(***************************************************************************)
(* resolveProfile on its own: a store of up to MaxProfiles profiles and a  *)
(* selector in msg; last.idx keeps the position resolved, 0 for none.       *)
(***************************************************************************)
MaxProfiles == 3

\* Profiles as the commands leave them: identifiers and labels are unique.
ProfilePool ==
    << [id |-> FreshId(1), label |-> <<"w","o","r","k">>, savedAt |-> T0,
        email |-> Emails[1], accountId |-> <<>>, oauth |-> CodexCred(1)],
       [id |-> FreshId(2), label |-> <<"w","o","r","k","2">>, savedAt |-> T0,
        email |-> Emails[2], accountId |-> <<>>, oauth |-> CodexCred(2)],
       [id |-> LegacyId("current"), label |-> <<"H","o","m","e">>, savedAt |-> T0,
        email |-> Emails[3], accountId |-> <<>>, oauth |-> CodexCred(3)],
       [id |-> FreshId(4), label |-> <<"2">>, savedAt |-> T0,
        email |-> <<>>, accountId |-> <<"a","c","c","t">>, oauth |-> CodexCred(4)],
       [id |-> FreshId(5), label |-> <<"l","a","b">>, savedAt |-> T0,
        email |-> Emails[4], accountId |-> <<>>, oauth |-> CodexCred(5)] >>

ProfileLists ==
    UNION {{[k \in 1..n |-> ProfilePool[f[k]]] :
               f \in {g \in [1..n -> 1..Len(ProfilePool)] :
                         \A i, j \in 1..n : i # j => g[i] # g[j]}} :
           n \in 0..MaxProfiles}

ResolveSelectors ==
    {<<"1">>, <<"2">>, <<"3">>, <<"0">>, <<"9">>, <<"+","2">>, <<"0","1">>, <<"-","1">>,
     <<" ","2"," ">>, <<"w","o">>, <<"w","o","r","k","2">>, <<"W","O","R","K">>,
     <<" ","h","o","m","e","\t">>, <<"h","o","m","e","@">>, <<"@","x">>,
     <<"P","_","2">>, <<"p","_">>, <<"L","E","G","A","C","Y","_","c","u","r","r","e","n","t">>,
     <<"a","c","c","t">>, <<"z","z">>, <<" ">>, <<>>}

InitResolve ==
    /\ msg \in ResolveSelectors
    /\ \E profiles \in ProfileLists :
          codex = [auth |-> NoOauth, file |-> StoreV2(NoId, profiles), backup |-> NoOauth,
                   ids |-> Len(ProfilePool)]
    /\ config = EmptyConfig
    /\ disk = NoFile
    /\ registered = FALSE
    /\ call = Idle
    /\ auth = NoAuth
    /\ now = T0
    /\ revoked = {}
    /\ last = NoLast
    /\ run = NewRun(config)
    /\ steps = 0
    /\ flights = <<>>

\* resolveProfile applied to the stored profiles and msg.
Resolve ==
    /\ last.op = "none"
    /\ last' = [NoLast EXCEPT !.op = "resolve",
                              !.idx = resolveProfile(codex.file.profiles, msg)]
    /\ UNCHANGED <<config, disk, auth, registered, now, revoked, call, run, steps, msg, codex, flights>>

NextResolve == Resolve

SpecResolve == InitResolve /\ [][NextResolve]_vars

\* The position a selector names as an integer: decimal digits, with an
\* optional sign; 0 when it is not a whole number of 1..n.
PositionNamed(target, n) ==
    LET unsigned == IF target # <<>> /\ Head(target) = "+" THEN Tail(target) ELSE target
        ks == {k \in 1..n :
                 /\ Len(unsigned) >= Len(NumberText(k))
                 /\ SubSeq(unsigned, Len(unsigned) - Len(NumberText(k)) + 1, Len(unsigned))
                       = NumberText(k)
                 /\ \A i \in 1..(Len(unsigned) - Len(NumberText(k))) : unsigned[i] = "0"}
    IN  IF ks = {} THEN 0 ELSE CHOOSE k \in ks : TRUE

SameText(a, b) == ToLowerCase(a) = ToLowerCase(b)

ExactMatches(profiles, target) ==
    {k \in 1..Len(profiles) :
        SameText(profiles[k].label, target) \/ SameText(profiles[k].id, target)}

Within(a, part) ==
    \E i \in 0..(Len(a) - Len(part)) :
        SameText(SubSeq(a, i + 1, i + Len(part)), part)

SubstringMatches(profiles, target) ==
    {k \in 1..Len(profiles) :
        Within(profiles[k].label, target) \/ Within(profiles[k].email, target)}

\* C16: resolveProfile resolves the trimmed selector in this order: (a) an
\* integer k with 1 <= k <= number of profiles names the k-th profile; (b)
\* otherwise the first profile whose label or identifier equals it, ignoring
\* case; (c) otherwise the profile whose label or email contains it,
\* ignoring case, when exactly one does; otherwise none.  An empty selector
\* names none.
C16_ResolutionOrder ==
    last.op = "resolve" =>
        LET profiles == codex.file.profiles
            target == Trim(msg)
            k == PositionNamed(target, Len(profiles))
            exact == ExactMatches(profiles, target)
            part == SubstringMatches(profiles, target)
        IN  IF target = <<>> THEN last.idx = 0
            ELSE IF k # 0 THEN last.idx = k
            ELSE IF exact # {} THEN last.idx \in exact /\ \A j \in exact : last.idx <= j
            ELSE IF Cardinality(part) = 1 THEN last.idx \in part
            ELSE last.idx = 0

\* Scenario E: "wo" against the labels "work", "work2" resolves to none.
C16_ScenarioE ==
    /\ last.op = "resolve"
    /\ msg = <<"w","o">>
    /\ Len(codex.file.profiles) = 2
    /\ codex.file.profiles[1].label = <<"w","o","r","k">>
    /\ codex.file.profiles[2].label = <<"w","o","r","k","2">>
    /\ last.idx = 0

\* Scenario E: "work2" against the labels "work", "work2" resolves to the
\* second profile.
ScenarioEExact ==
    (/\ last.op = "resolve"
     /\ msg = <<"w","o","r","k","2">>
     /\ Len(codex.file.profiles) = 2
     /\ codex.file.profiles[1].label = <<"w","o","r","k">>
     /\ codex.file.profiles[2].label = <<"w","o","r","k","2">>)
    => last.idx = 2

SelectorCommands == {"ag-remove", "codexswap use", "codexswap rm", "codexswap rename"}

\* C18: when the selector of remove, use or rename resolves to nothing, the
\* command reports not-found and mutates nothing: the pool file,
\* codexswap.json and the credentials of auth.json are as before the command.
C18_NotFoundMutatesNothing ==
    [][(last'.op \in SelectorCommands /\ last'.result = "not-found") =>
          /\ disk' = disk
          /\ codex'.file = codex.file
          /\ codex'.auth = codex.auth
          /\ auth' = auth]_vars

\* /codexswap rm found its selector ambiguous among two stored profiles,
\* while the store on disk was still the first version's.
C18_AmbiguousRm ==
    /\ last.op = "codexswap rm"
    /\ last.result = "not-found"
    /\ codex.file.version = 1
    /\ Len(SavedProfiles) = 2

(***************************************************************************)
(* loadStore and migrateLegacyStore on their own: codexswap.json starts as *)
(* a document of the first version (or is missing) and is loaded and saved *)
(* again and again while the clock advances.                                *)
(***************************************************************************)
MaxLoads == 2

\* The slots a first-version document may hold: none, or the credential of
\* one of two people, with or without a label and a timestamp.
\* The slot of the second person under a label the user chose: "Work".
RelabelledSlot ==
    LegacySlot(<<"W","o","r","k">>, T0 - 1000, Emails[2], <<>>, CodexCred(2))

LegacySlots ==
    {NoSlot, RelabelledSlot}
    \cup {LegacySlot(IF labelled THEN BeforeAt(Emails[k]) ELSE <<>>,
                     IF stamped THEN T0 - 1000 ELSE 0,
                     Emails[k], <<>>, CodexCred(k)) :
            k \in 1..2, labelled \in BOOLEAN, stamped \in BOOLEAN}

LegacyStores ==
    {LegacyStore(a, c, p) :
        a \in {"", "current", "previous"}, c \in LegacySlots, p \in LegacySlots}

InitMigrate ==
    /\ \E file \in {NoStoreFile} \cup LegacyStores :
          codex = [auth |-> NoOauth, file |-> file, backup |-> NoOauth, ids |-> 0]
    /\ msg = <<>>
    /\ config = EmptyConfig
    /\ disk = NoFile
    /\ registered = FALSE
    /\ call = Idle
    /\ auth = NoAuth
    /\ now = T0
    /\ revoked = {}
    /\ last = NoLast
    /\ run = NewRun(config)
    /\ steps = 0
    /\ flights = <<>>

\* saveStore(loadStore()), as every command does without a live credential
\* to add; last.result tells whether the document was migrated.
LoadAndSave ==
    /\ steps < MaxLoads
    /\ UNCHANGED flights
    /\ steps' = steps + 1
    /\ now' = now + 1
    /\ codex' = [codex EXCEPT !.file = saveStore(loadStore(codex.file, now))]
    /\ last' = [NoLast EXCEPT !.op = "loadStore",
                              !.result = IF codex.file.version = 1 THEN "migrated"
                                         ELSE IF codex.file.version = 2 THEN "loaded"
                                         ELSE "empty"]
    /\ UNCHANGED <<config, disk, auth, registered, revoked, call, run, msg>>

NextMigrate == LoadAndSave

SpecMigrate == InitMigrate /\ [][NextMigrate]_vars

Populated(slot) == slot.oauth.type = "oauth"

\* The profiles a migration owes: the populated slots, "current" first,
\* without "previous" when it repeats the refresh secret of "current".
SlotsKept(legacy) ==
    LET c == legacy.slots.current
        p == legacy.slots.previous
    IN  (IF Populated(c) THEN <<"current">> ELSE <<>>)
        \o (IF Populated(p) /\ ~(Populated(c) /\ c.oauth.refresh = p.oauth.refresh)
            THEN <<"previous">> ELSE <<>>)

MapsSlots(legacy, store) ==
    /\ Len(store.profiles) = Len(SlotsKept(legacy))
    /\ \A k \in 1..Len(store.profiles) :
          /\ store.profiles[k].oauth = legacy.slots[SlotsKept(legacy)[k]].oauth
          /\ store.profiles[k].id = LegacyId(SlotsKept(legacy)[k])

CarriesActive(legacy, store) ==
    (legacy.activeSlot # "" /\ Populated(legacy.slots[legacy.activeSlot])) =>
        \E k \in 1..Len(store.profiles) :
            /\ store.profiles[k].id = store.activeProfileId
            /\ store.profiles[k].oauth = legacy.slots[legacy.activeSlot].oauth

MigrationMapsSlots ==
    [][last'.result = "migrated" => MapsSlots(codex.file, codex'.file)]_vars

\* C19: migrateLegacyStore maps each populated slot to one profile, skips a
\* slot whose refresh secret already appears, and carries the active slot
\* over: whenever activeSlot names a populated slot, activeProfileId names a
\* profile that holds that slot's credential.
C19_MigrationCarriesActive ==
    [][last'.result = "migrated" =>
          /\ MapsSlots(codex.file, codex'.file)
          /\ CarriesActive(codex.file, codex'.file)]_vars

\* Scenario D: only "previous" populated and active: one profile, active.
ScenarioD ==
    [][(/\ last'.result = "migrated"
        /\ ~Populated(codex.file.slots.current)
        /\ Populated(codex.file.slots.previous)
        /\ codex.file.activeSlot = "previous")
       => /\ Len(codex'.file.profiles) = 1
          /\ codex'.file.activeProfileId = codex'.file.profiles[1].id]_vars

SameProfiles(a, b) == a.profiles = b.profiles /\ a.activeProfileId = b.activeProfileId

\* C20: loading a document of the current version returns its profiles and
\* its activeProfileId unchanged, and loading what was saved after loading a
\* first-version document returns the store that first load returned: the
\* same profiles in the same order and the same activeProfileId.
C20_MigrationIdempotent ==
    /\ [](codex.file.version = 2 => SameProfiles(loadStore(codex.file, now), codex.file))
    /\ [][last'.op = "loadStore" =>
             SameProfiles(loadStore(codex'.file, now'), loadStore(codex.file, now))]_vars

\* A first-version document with two distinct unstamped slots was migrated
\* and saved, and the saved document loaded once more, later.
C20_LoadedAfterMigration ==
    /\ last.op = "loadStore"
    /\ last.result = "loaded"
    /\ Len(codex.file.profiles) = 2
    /\ codex.file.profiles[1].id = LegacyId("current")
    /\ codex.file.profiles[1].savedAt = T0
    /\ now = T0 + 2

\* The pool document in memory, saved and loaded again.
PoolRoundTrip == loadConfig(saveConfig(config)) = config

\* The store a command loads, saved and loaded again.
StoreRoundTrip ==
    SameProfiles(loadStore(saveStore(loadStore(codex.file, now)), now),
                 loadStore(codex.file, now))

----------------------------------------------------------------------------
\* Loading whatever the two files hold: SpecLoad starts from files that are
\* missing, unreadable, or well-formed JSON of any shape, and loads them.

PoolFields == {"version", "accounts", "activeIndex", "rotationMode"}

\* Objects whose fields all hold a value of the field's type.
TypedObjects ==
    [version : {1},
     accounts : {<<>>, <<MigratedAccount(1)>>},
     activeIndex : {0, 5},
     rotationMode : {RoundRobin, "fastest"}]

\* JSON objects holding some of the document's fields.
PoolObjects ==
    {[f \in keep |-> full[f]] : keep \in SUBSET PoolFields, full \in TypedObjects}

PoolFiles ==
    {NoFile, BrokenFile} \cup {[exists |-> TRUE, data |-> obj] : obj \in PoolObjects}

StoreFiles ==
    {NoStoreFile, [version |-> 1], [version |-> 2], [version |-> 3, profiles |-> <<>>],
     StoreV2(NoId, <<>>), StoreV2(FreshId(7), <<>>),
     StoreV2(FreshId(1), <<profileFromOauth(CodexCred(1), BeforeAt(Emails[1]), 1, T0)>>),
     LegacyStore("current", LegacySlot(<<>>, 0, Emails[1], <<>>, CodexCred(1)), NoSlot)}

InitLoad ==
    /\ disk \in PoolFiles
    /\ \E file \in StoreFiles :
          codex = [auth |-> NoOauth, file |-> file, backup |-> NoOauth, ids |-> 0]
    /\ config = EmptyConfig
    /\ msg = <<>>
    /\ auth = NoAuth
    /\ registered = FALSE
    /\ now = T0
    /\ revoked = {}
    /\ call = Idle
    /\ last = NoLast
    /\ run = NewRun(config)
    /\ steps = 0
    /\ flights = <<>>

\* `let config = loadConfig()` when the extension starts.
LoadConfigFile ==
    /\ steps < MaxLoads
    /\ UNCHANGED flights
    /\ last.op # "loadConfig"
    /\ steps' = steps + 1
    /\ config' = loadConfig(disk)
    /\ last' = [NoLast EXCEPT !.op = "loadConfig", !.result = "loaded"]
    /\ UNCHANGED <<disk, auth, registered, now, revoked, call, run, msg, codex>>

NextLoad == LoadConfigFile \/ LoadAndSave

SpecLoad == InitLoad /\ [][NextLoad]_vars

\* A document a session can work with.
ValidDocument(cfg) ==
    /\ cfg.rotationMode \in RotationModes
    /\ cfg.activeIndex \in 0..Max(Len(cfg.accounts) - 1, 0)

ValidStore(store) ==
    /\ store.version = 2
    /\ store.activeProfileId # NoId =>
          \E k \in 1..Len(store.profiles) : store.profiles[k].id = store.activeProfileId

\* loadConfig() and loadStore() return the empty default for a file that is
\* missing or cannot be parsed, and never raise.
LoadsDefaultForUnreadable ==
    /\ (last.op = "loadConfig" /\ (~disk.exists \/ "data" \notin DOMAIN disk))
          => config = EmptyConfig
    /\ (last.op = "loadStore" /\ last.result = "empty")
          => codex.file = StoreV2(NoId, <<>>)

\* The store loadStore() returned has no dangling activeProfileId.
LoadedStoreValid == last.op = "loadStore" => ValidStore(codex.file)

\* C22: loading a missing, unreadable or malformed file, well-formed JSON of
\* the wrong shape included, returns a valid document (a known mode, no
\* dangling active index), the empty default when the file cannot be read.
C22_LoadReturnsDefault ==
    /\ last.op = "loadConfig" => ValidDocument(config)
    /\ LoadsDefaultForUnreadable

\* An unreadable pool file was loaded.
LoadedBrokenFile == last.op = "loadConfig" /\ disk = BrokenFile

----------------------------------------------------------------------------
\* No two of the profiles carry labels that are equal ignoring case.
LabelsUnique(profiles) ==
    \A j, k \in 1..Len(profiles) :
        j # k => ~SameText(profiles[j].label, profiles[k].label)

\* C23: in every state codex-swap reaches through add, rename, bootstrap and
\* the migration of a first-version document, no two saved profiles have
\* labels equal ignoring case.
C23_LabelsUnique == last.op # "none" => LabelsUnique(SavedProfiles)

----------------------------------------------------------------------------
(***************************************************************************)
(* Overlapping refreshToken invocations.  The hook is an async function:   *)
(* it runs without interruption up to `await getValidAccessToken(account)`,*)
(* and while it waits for the token endpoint another invocation or a       *)
(* command handler can run.  flights holds the invocations begun, each     *)
(* with the account it bound: element idx of the pool (live), or an object *)
(* the pool no longer contains once a handler has reloaded the document.   *)
(***************************************************************************)
\* The number of refreshToken invocations a behaviour holds.
MaxCalls == 2

\* A selection that never moves the active index.
SelectForRequestStay(st, t) == st

\* Lines 299-309: the active index moves to the next account in round-robin
\* mode, and the document is saved when it moved.
SelectForRequest(st, t) ==
    IF /\ getNextAccountIndex(st.config, t, FALSE) >= 0
       /\ st.config.rotationMode = RoundRobin
       /\ getNextAccountIndex(st.config, t, FALSE) # st.config.activeIndex
    THEN Save([st EXCEPT !.config.activeIndex = getNextAccountIndex(st.config, t, FALSE)])
    ELSE st

\* An invocation that bound account idx; before is the active index it found.
Flight(pc, cfg, idx, before, others) ==
    [pc |-> pc, idx |-> idx, live |-> TRUE, account |-> AccountAt(cfg, idx),
     before |-> before,
     overlaps |-> \E c \in 1..Len(others) : others[c].pc = "fetch"]

\* The invocation's first part, up to the await.
Selected(st1, before) ==
    IF ~HasAccountAt(st1.config, st1.config.activeIndex)
    THEN /\ Finish(Outcome(st1, "error", NoCred, NoActiveAccount, 0, FALSE, <<>>, -1))
         /\ flights' = flights
    ELSE IF CachedTokenValid(AccountAt(st1.config, st1.config.activeIndex), now)
    THEN /\ Finish([Succeed(st1, st1.config.activeIndex, now, 1) EXCEPT
                        !.picks = <<st1.config.activeIndex>>])
         /\ flights' = Append(flights, Flight("done", st1.config, st1.config.activeIndex,
                                              before, flights))
    ELSE /\ config' = st1.config
         /\ disk' = st1.disk
         /\ call' = call
         /\ run' = [run EXCEPT !.picks = Append(run.picks, st1.config.activeIndex)]
         /\ flights' = Append(flights, Flight("fetch", st1.config, st1.config.activeIndex,
                                              before, flights))
         /\ UNCHANGED last

GetCredentialBegin ==
    /\ steps < MaxSteps
    /\ Len(flights) < MaxCalls
    /\ registered
    /\ call.pc = "idle"
    /\ steps' = steps + 1
    /\ UNCHANGED <<auth, registered, now, revoked, msg, codex>>
    /\ IF getNextAccountIndex(config, now, FALSE) < 0
       THEN /\ Finish(Outcome(Mem(config, disk), "error", NoCred, NoAccountsConfigured,
                              0, FALSE, <<>>, -1))
            /\ flights' = flights
       ELSE Selected(SelectForRequest(Mem(config, disk), now), config.activeIndex)

\* The account object after getValidAccessToken stored the token and the try
\* block counted the use.
TokenStored(a, t) ==
    [a EXCEPT !.accessToken = IssuedToken(a.refreshToken),
              !.accessTokenExpires = t + (ExpiresIn * 1000) - (5 * 60 * 1000),
              !.lastUsed = t,
              !.requestCount = (IF a.requestCount = UNDEF THEN 0 ELSE a.requestCount) + 1]

\* The endpoint's answer reaches an invocation whose account is still an
\* element of the pool in memory.
ResumeLive(c) ==
    /\ flights' = [flights EXCEPT ![c].pc = "done"]
    /\ IF RefreshAccepted(AccountAt(config, flights[c].idx))
       THEN Finish(Succeed(StoreToken(Mem(config, disk), flights[c].idx, now),
                           flights[c].idx, now, 1))
       ELSE Finish(Fail(Mem(config, disk), flights[c].idx, now))

\* The answer reaches an invocation whose account object was replaced by a
\* reload: the writes go to that object, and saveConfig(config) writes the
\* pool in memory, which does not contain it.
ResumeDetached(c, a) ==
    IF RefreshAccepted(a)
    THEN /\ flights' = [flights EXCEPT ![c].pc = "done", ![c].account = TokenStored(a, now)]
         /\ Finish(Outcome(Save(Mem(config, disk)), "credential",
                           CredentialOf(TokenStored(a, now), config,
                                        IssuedToken(a.refreshToken), now,
                                        config.activeIndex),
                           NoError, 1, TRUE, <<>>, flights[c].idx))
    ELSE /\ flights' = [flights EXCEPT
                            ![c].pc = "done",
                            ![c].account.lastError = TokenRefreshFailed(a.email)]
         /\ Finish(Rethrown(Save(Mem(config, disk)), TokenRefreshFailed(a.email),
                            flights[c].idx, now))

GetCredentialResume(c) ==
    /\ flights[c].pc = "fetch"
    /\ steps' = steps
    /\ UNCHANGED <<auth, registered, now, revoked, msg, codex>>
    /\ IF flights[c].live THEN ResumeLive(c) ELSE ResumeDetached(c, flights[c].account)

InitOverlap ==
    /\ \E n \in 1..MaxAccounts, mode \in RotationModes :
       \E resets \in [1..n -> {UNDEF, T0 + 30000}], activeIndex \in 0..(n - 1) :
            disk = saveConfig(PoolOf(n, resets, activeIndex, mode))
    /\ Start(disk)
    /\ auth = NoAuth
    /\ now = T0
    /\ revoked \in SUBSET {RefreshSecrets[1]}
    /\ last = NoLast
    /\ run = NewRun(config)
    /\ steps = 0
    /\ flights = <<>>
    /\ msg = <<>>
    /\ codex = NoCodex

NextOverlap ==
    \/ GetCredentialBegin
    \/ \E c \in 1..MaxCalls : c <= Len(flights) /\ GetCredentialResume(c)
    \/ AgNext
    \/ AgStatus

SpecOverlap == InitOverlap /\ [][NextOverlap]_vars

\* The refresh secrets the token endpoint is being asked to refresh.
InFlight(c) == flights[c].pc = "fetch"

\* C24: at no time are two requests to the token endpoint in flight for the
\* same account; requests for different accounts may overlap.
C24_OneRefreshPerAccount ==
    \A c, d \in 1..Len(flights) :
        (c # d /\ InFlight(c) /\ InFlight(d))
            => flights[c].account.refreshToken # flights[d].account.refreshToken


\* The available account that follows index i in cyclic order.
CyclicNext(cfg, i, t) ==
    LET n == Len(cfg.accounts)
        dist(j) == (j - i - 1 + n) % n
    IN  CHOOSE j \in AvailableIndices(cfg, t) :
            \A k \in AvailableIndices(cfg, t) : dist(j) <= dist(k)

\* An invocation begins while invocation c waits for the token endpoint, the
\* active index being where c left it, in round-robin mode with at least two
\* available accounts.
SecondBeginsDuring(c) ==
    /\ c <= Len(flights)
    /\ Len(flights') = Len(flights) + 1
    /\ InFlight(c)
    /\ flights[c].live
    /\ config.activeIndex = flights[c].idx
    /\ config.rotationMode = RoundRobin
    /\ Cardinality(AvailableIndices(config, now)) >= 2

\* C25: in round-robin mode with at least two available accounts, an
\* invocation that begins while another waits for its token selects a
\* different account, the active index is then two cyclic steps from where
\* the first invocation found it, and an answer of the endpoint that is
\* accepted leaves the active index there.
C25_OverlappingCallsSelectDistinct ==
    [][/\ \A c \in 1..MaxCalls :
            SecondBeginsDuring(c) =>
                /\ flights'[Len(flights')].idx # flights[c].idx
                /\ config'.activeIndex = flights'[Len(flights')].idx
                /\ config'.activeIndex =
                       CyclicNext(config, CyclicNext(config, flights[c].before, now), now)
                /\ loadConfig(disk').activeIndex = config'.activeIndex
       /\ \A c \in 1..Len(flights) :
            (InFlight(c) /\ flights'[c].pc = "done" /\ last'.result = "credential")
                => config'.activeIndex = config.activeIndex]_vars

\* Two invocations wait for the token endpoint, each for its own account.
C25_TwoWaiting ==
    /\ Len(flights) = 2
    /\ InFlight(1) /\ InFlight(2)
    /\ config.rotationMode = RoundRobin
    /\ flights[2].overlaps
    /\ flights[1].idx # flights[2].idx
    /\ Len(config.accounts) = 3
    /\ Cardinality(AvailableIndices(config, now)) = 2

\* C26: when refreshToken returns a credential, the persisted entry of that
\* account holds the access token and expiry returned, the use counted and
\* the time of use, whatever handlers reloaded the document meanwhile.
C26_PersistedWhenReturned ==
    [][\A c \in 1..Len(flights) :
            (InFlight(c) /\ flights'[c].pc = "done" /\ last'.result = "credential")
                => \E i \in 1..Len(loadConfig(disk').accounts) :
                      LET a == loadConfig(disk').accounts[i]
                      IN  /\ a.refreshToken = last'.cred.refresh
                          /\ a.accessToken = last'.cred.access
                          /\ a.accessTokenExpires = last'.cred.expires
                          /\ a.lastUsed = now
                          /\ a.requestCount # UNDEF]_vars

\* Without a reload in between, what refreshToken returned is persisted.
PersistedWhenNotReloaded ==
    [][\A c \in 1..Len(flights) :
            (InFlight(c) /\ flights[c].live /\ flights'[c].pc = "done"
             /\ last'.result = "credential")
                => \E i \in 1..Len(loadConfig(disk').accounts) :
                      LET a == loadConfig(disk').accounts[i]
                      IN  /\ a.refreshToken = last'.cred.refresh
                          /\ a.accessToken = last'.cred.access
                          /\ a.lastUsed = now]_vars

----------------------------------------------------------------------------
\* The token endpoint has just rejected the refresh refreshToken awaited, and
\* the invocation ended with the error.
RefreshJustFailed ==
    /\ call.pc = "fetch"
    /\ last'.op = "refreshToken"
    /\ last'.result = "error"
    /\ last'.attempts >= 1

\* C27: a failed access-token refresh leaves every account's refresh secret
\* as it was, discards no account, records the failure text as lastError of
\* the account whose refresh failed, and leaves the cached access token and
\* expiry of every other account unchanged, in memory and in the document.
C27_FailedRefreshFrame ==
    [][RefreshJustFailed =>
        /\ Len(config'.accounts) = Len(config.accounts)
        /\ \A i \in 1..Len(config.accounts) :
              /\ config'.accounts[i].refreshToken = config.accounts[i].refreshToken
              /\ i # call.idx + 1 =>
                    /\ config'.accounts[i].accessToken = config.accounts[i].accessToken
                    /\ config'.accounts[i].accessTokenExpires
                           = config.accounts[i].accessTokenExpires
        /\ last'.idx = call.idx
        /\ config'.accounts[call.idx + 1].lastError
               = TokenRefreshFailed(config.accounts[call.idx + 1].email)
        /\ loadConfig(disk').accounts = config'.accounts]_vars

\* A refresh failed while another account holds a cached access token.
C27_FailedBesideCached ==
    /\ last.op = "refreshToken"
    /\ last.result = "error"
    /\ last.attempts >= 1
    /\ \E i \in 1..Len(config.accounts) :
          /\ i # last.idx + 1
          /\ config.accounts[i].accessToken # ""
    /\ config.accounts[last.idx + 1].lastError.kind # "none"

----------------------------------------------------------------------------
\* The account holds an access token whose stored expiry is later than t.
TokenInDate(a, t) ==
    a.accessToken # "" /\ a.accessTokenExpires # UNDEF /\ a.accessTokenExpires > t

\* A refreshToken invocation has just returned without awaiting the token
\* endpoint.
ReturnedWithoutRefresh ==
    /\ call.pc = "idle"
    /\ call'.pc = "idle"
    /\ steps' = steps + 1
    /\ last'.op = "refreshToken"
    /\ last'.result = "credential"

\* Account i of the pool differs from a at most in the use refreshToken counted.
SameButUse(b, a) ==
    b = [a EXCEPT !.lastUsed = b.lastUsed, !.requestCount = b.requestCount]

\* C28: for an account whose cached access token exists with a stored
\* expiry later than now, getValidAccessToken returns that token unchanged
\* without a request to the token endpoint and changes neither the account's
\* token and expiry nor any other account; a request to the endpoint is made
\* only for an account whose token is missing or whose expiry is not in the
\* future.
C28_CachedTokenReturned ==
    [][/\ ReturnedWithoutRefresh =>
            /\ TokenInDate(AccountAt(config, last'.idx), now)
            /\ last'.cred.access = AccountAt(config, last'.idx).accessToken
            /\ last'.cred.expires = AccountAt(config, last'.idx).accessTokenExpires
            /\ Len(config'.accounts) = Len(config.accounts)
            /\ \A i \in 1..Len(config.accounts) :
                  IF i = last'.idx + 1
                  THEN SameButUse(config'.accounts[i], config.accounts[i])
                  ELSE config'.accounts[i] = config.accounts[i]
            /\ loadConfig(disk').accounts = config'.accounts
       /\ (call.pc = "idle" /\ call'.pc = "fetch") =>
            /\ ~TokenInDate(AccountAt(config', call'.idx), now)
            /\ config'.accounts = config.accounts]_vars

\* A cached token was returned some time after it was issued, before its
\* expiry.
C28_ReturnedCached ==
    /\ last.op = "refreshToken"
    /\ last.result = "credential"
    /\ call.pc = "idle"
    /\ last.cred.expires > now
    /\ last.cred.expires < now + (ExpiresIn * 1000) - (5 * 60 * 1000)

----------------------------------------------------------------------------
\* The commands of codex-swap that are no add.
NoAddCommands ==
    {"codexwho", "codexswap status", "codexswap next", "codexswap use", "codexswap rm",
     "codexswap rename", "codexswap help"}

\* The refresh secrets of the accounts in the pool document.
PoolSecrets(file) ==
    {loadConfig(file).accounts[i].refreshToken : i \in 1..Len(loadConfig(file).accounts)}

\* C29: a profile removed by /codexswap rm is still absent after the next
\* command that is no add (status, who, next among them), the profile of the
\* live credential included; and a command of the pool that is no import
\* brings no account into the document.
C29_RemovedStaysRemoved ==
    [][/\ (/\ last.op = "codexswap rm"
           /\ last.result = "removed"
           /\ last'.op \in NoAddCommands)
              => ProfilesHolding(SavedProfiles', last.cred.refresh) = {}
       /\ last'.op = "ag-remove" => PoolSecrets(disk') \subseteq PoolSecrets(disk)]_vars

----------------------------------------------------------------------------
\* The identities of the pool's accounts, in the pool's order.
Identities(cfg) ==
    [i \in 1..Len(cfg.accounts) |->
        <<cfg.accounts[i].refreshToken, cfg.accounts[i].email>>]

\* seq without its element at position k.
Without(seq, k) == SubSeq(seq, 1, k - 1) \o SubSeq(seq, k + 1, Len(seq))

\* The pool a handler works on: the document for the handlers that reload.
WorkedOn(op) == IF op \in Reloading THEN loadConfig(disk) ELSE config

\* A handler has just run, or refreshToken has just gone on after its await.
HandlerRan == steps' = steps + 1 \/ call.pc = "fetch"

\* C30: selection, credential requests, rate-limit reports, force-next,
\* set-mode and clear-rate-limits leave the sequence of account identities
\* unchanged; an import appends the new account at the end; a remove deletes
\* exactly one account and keeps the others in their order; and what is
\* saved holds the identities in the order of the pool in memory.
C30_OrderPreserved ==
    [][HandlerRan =>
        /\ (disk' # disk /\ (last'.op # "other" \/ call'.pc = "fetch"))
              => Identities(loadConfig(disk')) = Identities(config')
        /\ IF call'.pc = "fetch"
           THEN Identities(config') = Identities(config)
           ELSE /\ last'.op \in {"refreshToken", "turn_end", "ag-next", "ag-mode", "ag-clear"}
                      => Identities(config') = Identities(WorkedOn(last'.op))
                /\ last'.op = "ag-import" =>
                      IF last'.result = "added"
                      THEN /\ Len(config'.accounts) = Len(config.accounts) + 1
                           /\ SubSeq(Identities(config'), 1, Len(config.accounts))
                                  = Identities(config)
                           /\ config'.accounts[Len(config'.accounts)].refreshToken
                                  = auth.refresh
                      ELSE Identities(config') = Identities(config)
                /\ last'.op = "ag-remove" =>
                      IF last'.result = "removed"
                      THEN Identities(config')
                               = Without(Identities(loadConfig(disk)), last'.idx + 1)
                      ELSE Identities(config') \in
                               {Identities(config), Identities(loadConfig(disk))}]_vars

\* The first of three accounts was removed.
C30_RemovedFirstOfThree ==
    /\ last.op = "ag-remove"
    /\ last.result = "removed"
    /\ last.idx = 0
    /\ Len(config.accounts) = 2

----------------------------------------------------------------------------
\* "manual", the third mode of the README.
Manual == "manual"

\* C31: /ag-mode m sets the rotation mode to manual, and while the mode is
\* manual neither a turn start, a credential request nor a failure report
\* changes the active index.
C31_ManualModePins ==
    [][/\ AgMode(<<"m">>) => config'.rotationMode = Manual
       /\ (/\ config.rotationMode = Manual
           /\ last'.op \in {"turn_start", "refreshToken", "turn_end"})
              => config'.activeIndex = config.activeIndex]_vars

----------------------------------------------------------------------------
\* A turn's credential request has just returned: the handler before it was
\* the turn_start that rotated, in round-robin mode with every account
\* available.
TurnServed ==
    /\ last.op = "refreshToken"
    /\ last.result = "credential"
    /\ call.pc = "idle"
    /\ last.prev.op = "turn_start"
    /\ last.prev.result = "rotated"
    /\ config.rotationMode = RoundRobin
    /\ AvailableIndices(config, now) = Indices(config)

\* C32: in round-robin mode with every account available a turn, turn_start
\* followed by the turn's credential request, advances the rotation by one
\* account: the request is served by the account turn_start rotated to, so
\* that N consecutive turns are served by N different accounts.
C32_OneAdvancePerTurn == TurnServed => last.idx = last.prev.idx

----------------------------------------------------------------------------
\* /codexswap without argument has just run on a live credential.
CycledNext ==
    /\ steps' = steps + 1
    /\ last'.op = "codexswap next"
    /\ ~NoLive(codex.auth)

\* Position k's successor in cyclic order among n.
CyclicSuccessor(k, n) == (k % n) + 1

\* The profile after profiles[k] is live and active afterwards, and the
\* profiles are as they were.
FollowerActivated(profiles, k) ==
    /\ codex'.auth = profiles[CyclicSuccessor(k, Len(profiles))].oauth
    /\ loadStore(codex'.file, now).activeProfileId
           = profiles[CyclicSuccessor(k, Len(profiles))].id
    /\ SavedProfiles' = profiles
    /\ last'.result = "switched"

CyclesFrom(b) ==
    IF Len(b.store.profiles) >= 2
    THEN FollowerActivated(b.store.profiles, b.liveProfile)
    ELSE codex'.auth = codex.auth

\* C33 as stated: with N >= 2 saved profiles, the live credential being one
\* of them, /codexswap makes the profile that follows it cyclically the
\* active one and the live credential; with fewer than 2 saved profiles the
\* authentication store is left unchanged.
C33_FewerThanTwoUnchanged ==
    [][CycledNext =>
        IF Len(SavedProfiles) >= 2
        THEN findByRefresh(SavedProfiles, codex.auth.refresh) # 0
                => FollowerActivated(SavedProfiles,
                                     findByRefresh(SavedProfiles, codex.auth.refresh))
        ELSE codex'.auth = codex.auth]_vars

\* C33: /codexswap without argument works on the store after the bootstrap,
\* which stores the live credential and may seed a second profile from the
\* latest backup. With N >= 2 profiles there, it makes the profile following
\* the live one cyclically the active one and the live credential, so that N
\* invocations activate every profile once; with fewer than 2 it leaves the
\* authentication store unchanged.
C33_NextCyclesBootstrapped ==
    [][CycledNext => CyclesFrom(Bootstrapped(codex, now))]_vars

\* The switch wrapped around from the last of three profiles to the first.
C33_WrappedAround ==
    /\ last.op = "codexswap next"
    /\ last.result = "switched"
    /\ last.idx = 1
    /\ Len(SavedProfiles) = 3
    /\ codex.auth = SavedProfiles[1].oauth

----------------------------------------------------------------------------
\* getNextAccountIndex has just been called on a pool with an available
\* account, in round-robin mode or with forceSwitch.
RotatingSelection ==
    /\ last.op = "getNextAccountIndex"
    /\ Len(config.accounts) > 0
    /\ AvailableIndices(config, now) # {}
    /\ config.rotationMode = RoundRobin \/ last.force

\* C34: in round-robin mode or with forceSwitch, when an account is
\* available, getNextAccountIndex returns the first available index going
\* round the pool from activeIndex + 1, the active index coming last: an
\* index other than the active one whenever another account is available,
\* the active one only when it is the sole available account.
C34_FirstAvailableAfterActive ==
    RotatingSelection =>
        /\ last.idx = NextAvailableAfter(config, now, config.activeIndex)
        /\ AvailableIndices(config, now) \ {config.activeIndex} # {}
              => last.idx # config.activeIndex
        /\ last.idx = config.activeIndex
              => AvailableIndices(config, now) = {config.activeIndex}

\* A forced call in use-until-exhausted mode passed the rate-limited
\* successor of the active account and returned the account before it.
C34_SkippedSuccessor ==
    /\ RotatingSelection
    /\ config.rotationMode = UseUntilExhausted
    /\ Len(config.accounts) = 3
    /\ config.activeIndex = 0
    /\ AvailableIndices(config, now) = {0, 2}
    /\ last.idx = 2

----------------------------------------------------------------------------
\* getNextAccountIndex has just been called without forceSwitch in
\* use-until-exhausted mode.
StickySelection ==
    /\ last.op = "getNextAccountIndex"
    /\ config.rotationMode # RoundRobin
    /\ ~last.force

LowestAvailable(cfg, t) ==
    CHOOSE i \in AvailableIndices(cfg, t) : \A j \in AvailableIndices(cfg, t) : i <= j

\* C35: outside round-robin mode and without forceSwitch, getNextAccountIndex
\* returns the active index when the active account is available and
\* otherwise the lowest index of an available account; it returns -1 exactly
\* when the pool is empty.
C35_StaysOrLowestAvailable ==
    StickySelection =>
        /\ config.activeIndex \in AvailableIndices(config, now)
              => last.idx = config.activeIndex
        /\ (/\ config.activeIndex \notin AvailableIndices(config, now)
            /\ AvailableIndices(config, now) # {})
              => last.idx = LowestAvailable(config, now)
        /\ last.idx = -1 <=> Len(config.accounts) = 0

\* The active account is rate-limited, both others are available, and the
\* call returned the lower of the two, which lies before the active one.
C35_FellBackToLowest ==
    /\ StickySelection
    /\ Len(config.accounts) = 3
    /\ config.activeIndex = 2
    /\ AvailableIndices(config, now) = {0, 1}
    /\ last.idx = 0

----------------------------------------------------------------------------
\* A refreshToken call ends in this step, with a credential or an error.
CallEnds == run'.calls = run.calls + 1

\* `account.requestCount ?? 0`.
Counted(a) == IF a.requestCount = UNDEF THEN 0 ELSE a.requestCount

\* C36: a refreshToken call that returns a credential adds one to the
\* request counter of the account whose credential it returns and sets that
\* account's lastUsed to the time of the call, and leaves the counter of
\* every other account as it was; a call that ends in an error changes no
\* counter.
C36_CountsReturnedAccountOnce ==
    [][CallEnds =>
        /\ Len(config'.accounts) = Len(config.accounts)
        /\ last'.result \in {"credential", "error"}
        /\ last'.result = "credential" =>
              \E i \in 1..Len(config.accounts) :
                  /\ config.accounts[i].refreshToken = last'.cred.refresh
                  /\ Counted(config'.accounts[i]) = Counted(config.accounts[i]) + 1
                  /\ config'.accounts[i].lastUsed = now
                  /\ \A j \in 1..Len(config.accounts) :
                        j # i => config'.accounts[j].requestCount
                                     = config.accounts[j].requestCount
        /\ last'.result = "error" =>
              \A j \in 1..Len(config.accounts) :
                  config'.accounts[j].requestCount = config.accounts[j].requestCount]_vars

\* The second account has just served for the second time, the first
\* account having served once.
C36_SecondUseCounted ==
    /\ last.op = "refreshToken"
    /\ last.result = "credential"
    /\ Len(config.accounts) >= 2
    /\ last.cred.refresh = config.accounts[2].refreshToken
    /\ Counted(config.accounts[2]) = 2
    /\ Counted(config.accounts[1]) = 1

----------------------------------------------------------------------------
\* /ag-remove has just removed the account at index last'.idx of the
\* document it loaded, an account other than the active one.
RemovedInactive ==
    /\ steps' = steps + 1
    /\ last'.op = "ag-remove"
    /\ last'.result = "removed"
    /\ HasAccountAt(loadConfig(disk), loadConfig(disk).activeIndex)
    /\ last'.idx # loadConfig(disk).activeIndex

\* C37: removing an account that is not the active one leaves the same
\* account active, the one with the same refresh secret, wherever the
\* removed account stood in the pool.
C37_ActiveAccountKept ==
    [][RemovedInactive =>
        /\ HasAccountAt(config', config'.activeIndex)
        /\ AccountAt(config', config'.activeIndex).refreshToken
               = AccountAt(loadConfig(disk), loadConfig(disk).activeIndex).refreshToken]_vars

----------------------------------------------------------------------------
\* turn_end has just taken a failure for a rate-limit report and marked the
\* account at index last'.idx, the request that failed having carried the
\* credential refreshToken returned last.
ReportedWhileHolding ==
    /\ last'.op = "turn_end"
    /\ last'.result = "rate-limited"
    /\ last.held # ""

\* C38: the account a rate-limit report marks is the account whose
\* credential the failed request carried, whatever turn_start, refreshToken
\* and turn_end did since that credential was returned, turns for which the
\* host asked for no new credential included.
C38_MarksAccountUsed ==
    [][ReportedWhileHolding =>
        /\ HasAccountAt(config, last'.idx)
        /\ AccountAt(config, last'.idx).refreshToken = last.held
        /\ AccountAt(config', last'.idx).rateLimitResetTime = now + last'.resetMs]_vars

----------------------------------------------------------------------------
\* C39: a credential refreshToken returns is consistent in itself, also when
\* invocations overlap: the index it reports as _multiAccount.activeIndex is
\* the index of the account whose refresh secret, email and project id it
\* carries.
C39_ReportedIndexIsReturnedAccount ==
    [][(CallEnds /\ last'.result = "credential") =>
        /\ HasAccountAt(config', last'.cred.activeIndex)
        /\ AccountAt(config', last'.cred.activeIndex).refreshToken = last'.cred.refresh
        /\ AccountAt(config', last'.cred.activeIndex).email = last'.cred.email
        /\ AccountAt(config', last'.cred.activeIndex).projectId = last'.cred.projectId]_vars

----------------------------------------------------------------------------
\* A codex-swap command has just completed with success.
CodexCommandSucceeded ==
    /\ last.op \in {"codexwho", "codexswap next", "codexswap status", "codexswap add",
                    "codexswap use", "codexswap rm", "codexswap rename"}
    /\ last.result \in {"shown", "switched", "updated", "saved", "removed", "renamed"}

\* The profile the saved store records as active holds the live credential
\* of auth.json.
ActiveProfileIsLive ==
    /\ ~NoLive(codex.auth)
    /\ \E k \in 1..Len(SavedProfiles) :
          /\ SavedProfiles[k].id = loadStore(codex.file, now).activeProfileId
          /\ SavedProfiles[k].oauth.refresh = codex.auth.refresh

\* C40: after every codex-swap command that completes with success (next,
\* use, add, rm, rename, status, who), activeProfileId names an existing
\* profile whose refresh secret is that of the live credential in auth.json.
C40_ActiveProfileMatchesLive == CodexCommandSucceeded => ActiveProfileIsLive
====
